---- MODULE Spec2Model ----
(***************************************************************************)
(* Model of the stock-api resolution engine:                               *)
(*   app/services/stock_service.py  (StockService)                         *)
(*   app/services/provider.py       (YFinanceProvider, symbol rules)       *)
(*   app/models/stock.py            (Stock, PriceHistory tables)           *)
(* Python strings are modelled as sequences of one-character strings.      *)
(***************************************************************************)
EXTENDS Integers, Sequences, FiniteSets, Bags, TLC

VARIABLES
    normIn,      \* the symbol handed to a normalizer
    normOut,     \* what the normalizer returned
    normOut2,    \* what _normalize_code returned when applied to normOut
    normPc,      \* "input" | "code1" | "code2" | "yf"
    indIn,       \* the close series handed to the indicator functions
    indOut,      \* what the indicator function returned, with its arguments
    indPc,       \* "input" | "ma" | "td9" | "series" | "macd"
    apiIn,       \* the query an endpoint received, with the provider's answer
    apiOut,      \* what the endpoint answered
    apiPc,       \* "input" | "indicators" | "batch"
    marker,      \* Redis key stock:sync:last_run_date: <<>> or <<[val, exp]>>
    job,         \* the scheduled sync job: position and locals
    stockTable,  \* rows of the stock table (Stock)
    priceTable,  \* rows of the pricehistory table (PriceHistory), a bag: the
                 \* autoincrement id only tells equal rows apart
    cache,       \* Redis: key -> <<>> or <<[val, exp]>>
    now,         \* wall clock, seconds
    calls,       \* requests started so far
    proc         \* per request handler: position and locals

normVars == <<normIn, normOut, normOut2, normPc>>

indVars == <<indIn, indOut, indPc>>

apiVars == <<apiIn, apiOut, apiPc>>

jobVars == <<marker, job>>

\* everything the request handlers of StockService leave alone
pureVars == <<normVars, indVars, apiVars, jobVars>>

offJobVars == <<normVars, indVars, apiVars>>

sysVars == <<stockTable, priceTable, cache, now, calls, proc>>

vars == <<normIn, normOut, normOut2, normPc, indIn, indOut, indPc,
          apiIn, apiOut, apiPc, marker, job,
          stockTable, priceTable, cache, now, calls, proc>>

----------------------------------------------------------------------------
(* Python str operations used by the two normalizers *)

Digits == {"0", "1", "2", "3", "4", "5", "6", "7", "8", "9"}

\* str.startswith(p)
StartsWith(s, p) == Len(s) >= Len(p) /\ SubSeq(s, 1, Len(p)) = p

\* str.endswith(p)
EndsWith(s, p) == Len(s) >= Len(p) /\ SubSeq(s, Len(s) - Len(p) + 1, Len(s)) = p

\* str.isdigit(): false for the empty string
IsDigit(s) == Len(s) > 0 /\ \A i \in 1..Len(s) : s[i] \in Digits

\* s[2:]
From2(s) == SubSeq(s, 3, Len(s))

\* s.split(".")[0]: everything before the first dot, the whole string without one
SplitFirst(s) ==
    LET dots == {i \in 1..Len(s) : s[i] = "."}
    IN  IF dots = {} THEN s
        ELSE SubSeq(s, 1, (CHOOSE i \in dots : \A j \in dots : i <= j) - 1)

sh == <<"s", "h">>
sz == <<"s", "z">>
dotSS == <<".", "S", "S">>
dotSZ == <<".", "S", "Z">>
dotHK == <<".", "H", "K">>
dotBJ == <<".", "B", "J">>

\* a plausible slip: the length test of the legacy rule left out
_normalize_code_nolen(symbol) ==
    IF (StartsWith(symbol, sh) \/ StartsWith(symbol, sz)) /\ IsDigit(From2(symbol))
    THEN From2(symbol)
    ELSE IF EndsWith(symbol, dotSS) \/ EndsWith(symbol, dotSZ)
         THEN SplitFirst(symbol)
         ELSE symbol

\* StockService._normalize_code: the storage key
_normalize_code(symbol) ==
    IF (StartsWith(symbol, sh) \/ StartsWith(symbol, sz))
       /\ IsDigit(From2(symbol)) /\ Len(symbol) = 8
    THEN From2(symbol)
    ELSE IF EndsWith(symbol, dotSS) \/ EndsWith(symbol, dotSZ)
         THEN SplitFirst(symbol)
         ELSE symbol

\* a plausible slip: the Beijing branch (4/8) forgotten, those codes fall through
_normalize_symbol_nobj(symbol) ==
    IF IsDigit(symbol) /\ Len(symbol) = 6 /\ StartsWith(symbol, <<"6">>)
    THEN symbol \o dotSS
    ELSE IF IsDigit(symbol) /\ Len(symbol) = 6
            /\ (StartsWith(symbol, <<"0">>) \/ StartsWith(symbol, <<"3">>))
    THEN symbol \o dotSZ
    ELSE IF StartsWith(symbol, sh) /\ IsDigit(From2(symbol))
    THEN From2(symbol) \o dotSS
    ELSE IF StartsWith(symbol, sz) /\ IsDigit(From2(symbol))
    THEN From2(symbol) \o dotSZ
    ELSE symbol

\* YFinanceProvider._normalize_symbol: the provider query key
_normalize_symbol(symbol) ==
    IF IsDigit(symbol) /\ Len(symbol) = 6 /\ StartsWith(symbol, <<"6">>)
    THEN symbol \o dotSS
    ELSE IF IsDigit(symbol) /\ Len(symbol) = 6
            /\ (StartsWith(symbol, <<"0">>) \/ StartsWith(symbol, <<"3">>))
    THEN symbol \o dotSZ
    ELSE IF IsDigit(symbol) /\ Len(symbol) = 6
            /\ (StartsWith(symbol, <<"4">>) \/ StartsWith(symbol, <<"8">>))
    THEN symbol \o dotBJ
    ELSE IF StartsWith(symbol, sh) /\ IsDigit(From2(symbol))
    THEN From2(symbol) \o dotSS
    ELSE IF StartsWith(symbol, sz) /\ IsDigit(From2(symbol))
    THEN From2(symbol) \o dotSZ
    ELSE symbol

----------------------------------------------------------------------------
(* Values: symbols, dates, provider payloads, table rows *)

NumProcs == 2      \* concurrent request handlers
MaxCalls == 2      \* requests started in one behaviour, one at a time
MaxOverlap == 2    \* requests started in one behaviour when they may overlap
MaxTicks == 2      \* clock advances in one behaviour
NumDays == 2       \* distinct trading days
MaxBatch == 2      \* bars in one provider batch

Procs == 1..NumProcs
Days == 1..NumDays

\* None is <<>>, a value x that may be None is <<x>>
None == <<>>

SymCN == <<"s", "z", "8", "3", "0", "7", "9", "9">>
SymBare == <<"8", "3", "0", "7", "9", "9">>
Symbols == {SymCN, SymBare}

\* self.CACHE_EXPIRE
CACHE_EXPIRE == 3600 * 24

\* the clock moves in half days
TickSeconds == 3600 * 12

\* a date string as a request carries it: the day it names when it is written
\* "YYYY-MM-DD" ("iso"), or a text that is no date ("bad")
DateStrings == [day : Days, form : {"iso"}] \cup {[day |-> 0, form |-> "bad"]}
NoDate == [day |-> 0, form |-> "none"]

\* datetime.strptime(s, "%Y-%m-%d").date(): raises ValueError on a text that is no date
ParsesOk(s) == s.form = "iso"
strptime(s) == s.day

\* d.strftime("%Y-%m-%d"): always zero-padded
strftime(d) == [day |-> d, form |-> "iso"]

\* timedelta(days=10) of get_price_history
HISTORY_BUFFER_DAYS == 10

\* prices are held in units of 1/10000; round(x, 3) rounds half to even
round3(x) ==
    LET q == x \div 10
        r == x % 10
    IN  IF r < 5 THEN q * 10
        ELSE IF r > 5 THEN (q + 1) * 10
        ELSE IF q % 2 = 0 THEN q * 10 ELSE (q + 1) * 10

\* a plausible slip: the Hong Kong suffix forgotten
MarketOf_nohk(yf_symbol) ==
    IF EndsWith(yf_symbol, dotSS) \/ EndsWith(yf_symbol, dotSZ) THEN "CN"
    ELSE "US"

\* the market YFinanceProvider infers from the provider symbol
MarketOf(yf_symbol) ==
    IF EndsWith(yf_symbol, dotSS) \/ EndsWith(yf_symbol, dotSZ) THEN "CN"
    ELSE IF EndsWith(yf_symbol, dotHK) THEN "HK"
    ELSE "US"

\* last prices the provider may report (already rounded to 3 places)
Prices == {10000, 20000}

\* YFinanceProvider.get_stock_info: None, or the payload for the symbol as asked
ProviderGetStockInfo(symbol) ==
    {None} \cup
    { <<[symbol |-> symbol, name |-> symbol, price |-> round3(p),
         market |-> MarketOf(_normalize_symbol(symbol))]>> : p \in Prices }

\* the two quotes a provider may report for a day
BarValues ==
    { [open |-> 10000, close |-> 10500, high |-> 11000, low |-> 9000, volume |-> 100],
      [open |-> 20000, close |-> 20500, high |-> 21000, low |-> 19000, volume |-> 200] }

Items ==
    { [date |-> strftime(d), open |-> v.open, close |-> v.close, high |-> v.high,
       low |-> v.low, volume |-> v.volume] : d \in Days, v \in BarValues }

\* YFinanceProvider.get_price_history: any list of bars, the empty one on failure
ProviderGetPriceHistory == UNION {[1..n -> Items] : n \in 0..MaxBatch}

\* json.dumps(data) and json.loads(text)
dumps(data) == <<data.symbol, data.name, data.price, data.market>>
loads(text) == [symbol |-> text[1], name |-> text[2], price |-> text[3], market |-> text[4]]

\* a plausible slip: the cache keyed by the storage code
cache_key_code(symbol) == <<"stock:info:">> \o _normalize_code(symbol)

\* cache_key = f"stock:info:{symbol}"
cache_key(symbol) == <<"stock:info:">> \o symbol

CacheKeys == {<<"stock:info:">> \o s : s \in Symbols}

\* a plausible slip: an entry still served at the instant it expires
RedisLive_inclusive(entry) == now <= entry.exp

\* Redis serves a key until its expiry time is reached
RedisLive(entry) == now < entry.exp

\* redis.get(key)
RedisGetValue(key) ==
    IF cache[key] # None /\ RedisLive(cache[key][1]) THEN <<cache[key][1].val>> ELSE None

InitProc ==
    [ pc |-> "idle", op |-> "none", nested |-> FALSE, symbol |-> <<>>, date |-> NoDate,
      data |-> None, hit |-> FALSE, getRaised |-> FALSE, setRaised |-> FALSE,
      infoCalled |-> FALSE, histCalled |-> FALSE, ensured |-> FALSE,
      stock |-> None, pendStock |-> None, hist_data |-> <<>>, range |-> None,
      pendBars |-> <<>>, storeHit |-> FALSE, ret |-> None, exc |-> "none",
      end_date |-> NoDate, provEmpty |-> FALSE, histCalls |-> 0 ]

\* the indicator functions are not under test
IndOff ==
    /\ indIn = <<>>
    /\ indOut = <<>>
    /\ indPc = "off"

\* the stateless endpoints are not under test
ApiOff ==
    /\ apiIn = <<>>
    /\ apiOut = <<>>
    /\ apiPc = "off"

\* the scheduler is not started (tests/conftest.py patches start_scheduler)
JobOff ==
    /\ marker = None
    /\ job = [pc |-> "off"]

SysIdle ==
    /\ stockTable = {}
    /\ priceTable = EmptyBag
    /\ cache = [k \in CacheKeys |-> None]
    /\ now = 0
    /\ calls = 0
    /\ proc = [p \in Procs |-> InitProc]

----------------------------------------------------------------------------
(* app/api/stock.py and the exception handlers of app/main.py: the answer an
   endpoint gives for what the service returned or raised *)

\* http_exception_handler: the status of the HTTPException, repeated in the body
HttpError(status_code) == [status |-> status_code, code |-> status_code, data |-> None]

\* Response.success(data=data)
Success(data) == [status |-> 200, code |-> 0, data |-> data]

\* GET /stock/{symbol}: 404 when the service returned nothing
InfoResponse(data) == IF data = None THEN HttpError(404) ELSE Success(data)

\* GET /stock/{symbol}/price for a handler that has finished: an exception of
\* the service reaches global_exception_handler, nothing returned is a 404
PriceResponse(me) ==
    IF me.pc = "raised" THEN HttpError(500)
    ELSE IF me.ret = None THEN HttpError(404)
    ELSE Success(me.ret)

----------------------------------------------------------------------------
(* The normalizers applied to symbols of every shape *)

NormPrefixes == {<<>>, sh, sz, <<"s">>, <<"h", "s">>}

NormBodies ==
    { <<"6", "0", "0", "0", "0", "0">>,
      <<"0", "0", "0", "0", "0", "1">>,
      <<"3", "0", "0", "7", "5", "0">>,
      <<"4", "3", "0", "0", "4", "7">>,
      <<"8", "3", "0", "7", "9", "9">>,
      <<"1", "2", "3", "4", "5", "6">>,
      <<"6", "0", "0", "0", "0">>,
      <<"6", "0", "0", "0", "0", "0", "0">>,
      <<"6", "0", "0", "0", "0", "A">>,
      <<"A", "A", "P", "L">>,
      <<"0", "7", "0", "0">>,
      <<>> }

NormSuffixes ==
    { <<>>, dotSS, dotSZ, dotHK, dotBJ,
      <<".", "B">> \o dotSS,
      dotSS \o dotSZ }

NormInputs == {p \o b \o s : p \in NormPrefixes, b \in NormBodies, s \in NormSuffixes}

NormInit ==
    /\ normIn \in NormInputs
    /\ normOut = <<>>
    /\ normOut2 = <<>>
    /\ normPc = "input"
    /\ IndOff
    /\ ApiOff
    /\ JobOff
    /\ SysIdle

\* code = self._normalize_code(symbol)
NormalizeCode ==
    /\ normPc = "input"
    /\ normOut' = _normalize_code(normIn)
    /\ normPc' = "code1"
    /\ UNCHANGED <<normIn, normOut2, indVars, apiVars, jobVars, sysVars>>

\* the storage key normalized once more
NormalizeCodeAgain ==
    /\ normPc = "code1"
    /\ normOut2' = _normalize_code(normOut)
    /\ normPc' = "code2"
    /\ UNCHANGED <<normIn, normOut, indVars, apiVars, jobVars, sysVars>>

\* yf_symbol = self._normalize_symbol(symbol)
NormalizeSymbol ==
    /\ normPc = "input"
    /\ normOut' = _normalize_symbol(normIn)
    /\ normPc' = "yf"
    /\ UNCHANGED <<normIn, normOut2, indVars, apiVars, jobVars, sysVars>>

\* GET /stock/{symbol} on a cold cache: the provider's payload for the symbol,
\* or nothing, and the answer of the endpoint
ProviderInfo(data) ==
    /\ normPc = "input"
    /\ normOut' = data
    /\ normOut2' = InfoResponse(data)
    /\ normPc' = "info"
    /\ UNCHANGED <<normIn, indVars, apiVars, jobVars, sysVars>>

NormNext ==
    \/ NormalizeCode
    \/ NormalizeCodeAgain
    \/ NormalizeSymbol
    \/ \E data \in ProviderGetStockInfo(normIn) : ProviderInfo(data)

NormSpec == NormInit /\ [][NormNext]_vars

----------------------------------------------------------------------------
(* app/utils/indicators.py and StockService.get_stock_price_with_indicators *)

MaxSeries == 6     \* rows in a fetched price series
MaxWindow == 3     \* moving-average windows tried on their own

\* closes a provider may report, in units of 1/10000
CloseValues == {10000, 20000, 30010}

\* NaN, the missing value of pandas; a number x that may be missing is <<x>>
NaN == <<>>

\* the sum a rolling window carries to row i: each row enters, and leaves again
\* once the window has moved past it
RECURSIVE RollingSum(_, _, _)
RollingSum(close, window, i) ==
    IF i = 0 THEN 0
    ELSE RollingSum(close, window, i - 1) + close[i]
         - (IF i > window THEN close[i - window] ELSE 0)

\* a plausible slip: a window that reports the mean of the rows it has so far
calculate_ma_partial(close, window) ==
    [i \in 1..Len(close) |->
        <<[num |-> RollingSum(close, window, i),
           den |-> IF i < window THEN i ELSE window]>>]

\* calculate_ma: df['close'].rolling(window=window).mean(); a mean is the exact
\* quotient num/den, missing until the window is full
calculate_ma(close, window) ==
    [i \in 1..Len(close) |->
        IF i < window THEN NaN
        ELSE <<[num |-> RollingSum(close, window, i), den |-> window]>>]

\* a plausible slip: a rise does not reset the buy count
RECURSIVE Td9Loop_noreset(_, _, _, _, _)
Td9Loop_noreset(close, i, buy_setup_count, sell_setup_count, td_values) ==
    IF i > Len(close) THEN td_values
    ELSE
      LET c == close[i]
          c_4 == close[i - 4]
          buy == IF c < c_4 THEN buy_setup_count + 1
                 ELSE IF c > c_4 THEN buy_setup_count ELSE 0
          sell == IF c < c_4 THEN 0 ELSE IF c > c_4 THEN sell_setup_count + 1 ELSE 0
          value == IF buy > 0 THEN buy ELSE IF sell > 0 THEN 0 - sell ELSE td_values[i]
      IN  Td9Loop_noreset(close, i + 1, buy, sell, [td_values EXCEPT ![i] = value])

\* a plausible slip: a counter clamped at 9, the length of a finished setup
RECURSIVE Td9Loop_capped(_, _, _, _, _)
Td9Loop_capped(close, i, buy_setup_count, sell_setup_count, td_values) ==
    IF i > Len(close) THEN td_values
    ELSE
      LET c == close[i]
          c_4 == close[i - 4]
          inc(n) == IF n < 9 THEN n + 1 ELSE 9
          buy == IF c < c_4 THEN inc(buy_setup_count) ELSE 0
          sell == IF c < c_4 THEN 0 ELSE IF c > c_4 THEN inc(sell_setup_count) ELSE 0
          value == IF buy > 0 THEN buy ELSE IF sell > 0 THEN 0 - sell ELSE td_values[i]
      IN  Td9Loop_capped(close, i + 1, buy, sell, [td_values EXCEPT ![i] = value])

\* the loop of calculate_td9 from row i on (row i of the model is index i - 1
\* of the code)
RECURSIVE Td9Loop(_, _, _, _, _)
Td9Loop(close, i, buy_setup_count, sell_setup_count, td_values) ==
    IF i > Len(close) THEN td_values
    ELSE
      LET c == close[i]
          c_4 == close[i - 4]
          buy == IF c < c_4 THEN buy_setup_count + 1 ELSE 0
          sell == IF c < c_4 THEN 0 ELSE IF c > c_4 THEN sell_setup_count + 1 ELSE 0
          value == IF buy > 0 THEN buy ELSE IF sell > 0 THEN 0 - sell ELSE td_values[i]
      IN  Td9Loop(close, i + 1, buy, sell, [td_values EXCEPT ![i] = value])

\* calculate_td9: zeros for a series shorter than 5, else the loop from index 4
calculate_td9(close) ==
    LET td_values == [i \in 1..Len(close) |-> 0]
    IN  IF Len(close) < 5 THEN td_values
        ELSE Td9Loop(close, 5, 0, 0, td_values)

\* round(x, 3) of a mean num/den held in units of 1/10000, half to even
RoundMean(q) ==
    LET d == q.den * 10
        whole == q.num \div d
        rest == q.num % d
    IN  IF 2 * rest < d THEN whole * 10
        ELSE IF 2 * rest > d THEN (whole + 1) * 10
        ELSE IF whole % 2 = 0 THEN whole * 10 ELSE (whole + 1) * 10

\* replace({np.nan: None}), then round(x, 3) if x is not None
FormatMean(x) == IF x = NaN THEN None ELSE <<RoundMean(x[1])>>

\* two "YYYY-MM-DD" strings compare as the days they name
DateStrLeq(a, b) == a.day <= b.day

\* the rows of df, in order, that the mask keeps
RECURSIVE FilterRows(_, _, _)
FilterRows(rows, mask, i) ==
    IF i > Len(rows) THEN <<>>
    ELSE (IF i \in mask THEN <<rows[i]>> ELSE <<>>) \o FilterRows(rows, mask, i + 1)

\* a plausible slip: the window is cut before the indicators are computed
get_stock_price_with_indicators_trimfirst(raw_data, start_date, end_date) ==
    LET mask == {i \in 1..Len(raw_data) :
                    DateStrLeq(start_date, raw_data[i].date)
                    /\ DateStrLeq(raw_data[i].date, end_date)}
        cut == FilterRows(raw_data, mask, 1)
        close == [i \in 1..Len(cut) |-> cut[i].close]
        td9 == calculate_td9(close)
    IN  [i \in 1..Len(cut) |->
            [date |-> cut[i].date, open |-> cut[i].open, close |-> cut[i].close,
             high |-> cut[i].high, low |-> cut[i].low, volume |-> cut[i].volume,
             ma5 |-> FormatMean(calculate_ma(close, 5)[i]),
             ma20 |-> FormatMean(calculate_ma(close, 20)[i]),
             ma50 |-> FormatMean(calculate_ma(close, 50)[i]),
             ma120 |-> FormatMean(calculate_ma(close, 120)[i]),
             td9 |-> td9[i]]]

\* get_stock_price_with_indicators, lines 223-267, for the batch the provider
\* returned: the indicator columns over the whole batch, then the rows whose
\* date lies in [start_date, end_date].  The columns of calculate_macd and
\* calculate_boll are left out
get_stock_price_with_indicators(raw_data, start_date, end_date) ==
    IF raw_data = <<>> THEN <<>>
    ELSE
      LET close == [i \in 1..Len(raw_data) |-> raw_data[i].close]
          td9 == calculate_td9(close)
          df == [i \in 1..Len(raw_data) |->
                    [date |-> raw_data[i].date, open |-> raw_data[i].open,
                     close |-> raw_data[i].close, high |-> raw_data[i].high,
                     low |-> raw_data[i].low, volume |-> raw_data[i].volume,
                     ma5 |-> FormatMean(calculate_ma(close, 5)[i]),
                     ma20 |-> FormatMean(calculate_ma(close, 20)[i]),
                     ma50 |-> FormatMean(calculate_ma(close, 50)[i]),
                     ma120 |-> FormatMean(calculate_ma(close, 120)[i]),
                     td9 |-> td9[i]]]
          mask == {i \in 1..Len(df) :
                      DateStrLeq(start_date, df[i].date)
                      /\ DateStrLeq(df[i].date, end_date)}
      IN  FilterRows(df, mask, 1)

\* the close series the indicator functions are tried on
Series == UNION {[1..n -> CloseValues] : n \in 0..MaxSeries}

\* the batch a provider returns for a close series: one bar a day, from day 1
SeriesData(close) ==
    [i \in 1..Len(close) |->
        [date |-> strftime(i), open |-> close[i], close |-> close[i],
         high |-> close[i], low |-> close[i], volume |-> 100]]

\* the normalizers are not under test
NormOff ==
    /\ normIn = <<>>
    /\ normOut = <<>>
    /\ normOut2 = <<>>
    /\ normPc = "off"

IndInit ==
    /\ indIn \in Series
    /\ indOut = <<>>
    /\ indPc = "input"
    /\ NormOff
    /\ ApiOff
    /\ JobOff
    /\ SysIdle

\* df[f'ma{window}'] = calculate_ma(df, window)
CalculateMa(window) ==
    /\ indPc = "input"
    /\ indOut' = [window |-> window, ma |-> calculate_ma(indIn, window)]
    /\ indPc' = "ma"
    /\ UNCHANGED <<indIn, normVars, apiVars, jobVars, sysVars>>

\* df['td9'] = calculate_td9(df)
CalculateTd9 ==
    /\ indPc = "input"
    /\ indOut' = calculate_td9(indIn)
    /\ indPc' = "td9"
    /\ UNCHANGED <<indIn, normVars, apiVars, jobVars, sysVars>>

\* get_stock_price_with_indicators on the series, for a window of days
IndicatorSeries(start, end) ==
    /\ indPc = "input"
    /\ indOut' = [start |-> start, end |-> end,
                  rows |-> get_stock_price_with_indicators(
                               SeriesData(indIn), strftime(start), strftime(end))]
    /\ indPc' = "series"
    /\ UNCHANGED <<indIn, normVars, apiVars, jobVars, sysVars>>

IndNext ==
    \/ \E window \in 1..MaxWindow : CalculateMa(window)
    \/ CalculateTd9
    \/ \E start, end \in 1..MaxSeries : IndicatorSeries(start, end)

IndicatorSpec == IndInit /\ [][IndNext]_vars

----------------------------------------------------------------------------
(* calculate_macd on short series; floats are held as exact fractions *)

MaxMacdRows == 2   \* rows of a series handed to calculate_macd

\* closes 1.0, 2.0, ..., 8.0, in units of 1/10000
MacdCloses == {n * 10000 : n \in 1..8}

Abs(n) == IF n < 0 THEN 0 - n ELSE n

RECURSIVE Gcd(_, _)
Gcd(a, b) == IF b = 0 THEN a ELSE Gcd(b, a % b)

\* the fraction n/d in lowest terms, d > 0
Frac(n, d) ==
    LET g == Gcd(Abs(n), d)
    IN  [num |-> n \div g, den |-> d \div g]

FracAdd(x, y) ==
    LET l == x.den * (y.den \div Gcd(x.den, y.den))
    IN  Frac(x.num * (l \div x.den) + y.num * (l \div y.den), l)

FracSub(x, y) == FracAdd(x, [num |-> 0 - y.num, den |-> y.den])

FracMul(x, y) == Frac(x.num * y.num, x.den * y.den)

Zero == Frac(0, 1)

\* a plausible slip: an average that starts from 0 instead of the first value
RECURSIVE ewm_zeroseed(_, _, _)
ewm_zeroseed(values, span, i) ==
    LET alpha == Frac(2, span + 1)
        rest == Frac(span - 1, span + 1)
        prev == IF i = 1 THEN Zero ELSE ewm_zeroseed(values, span, i - 1)
    IN  FracAdd(FracMul(rest, prev), FracMul(alpha, values[i]))

\* series.ewm(span=span, adjust=False).mean() at row i: the first value at
\* the first row, then (1 - alpha) * previous + alpha * value, alpha = 2/(span+1)
RECURSIVE ewm(_, _, _)
ewm(values, span, i) ==
    LET alpha == Frac(2, span + 1)
        rest == Frac(span - 1, span + 1)
    IN  IF i = 1 THEN values[1]
        ELSE FracAdd(FracMul(rest, ewm(values, span, i - 1)),
                     FracMul(alpha, values[i]))

\* calculate_macd(df, slow=26, fast=12, signal=9): the columns dif, dea, macd
calculate_macd(close, slow, fast, signal) ==
    LET values == [i \in 1..Len(close) |-> Frac(close[i], 10000)]
        macd == [i \in 1..Len(close) |->
                    FracSub(ewm(values, fast, i), ewm(values, slow, i))]
        signal_line == [i \in 1..Len(close) |-> ewm(macd, signal, i)]
        hist == [i \in 1..Len(close) |-> FracSub(macd[i], signal_line[i])]
    IN  [i \in 1..Len(close) |->
            [dif |-> macd[i], dea |-> signal_line[i],
             macd |-> FracMul(hist[i], Frac(2, 1))]]

MacdSeries == UNION {[1..n -> MacdCloses] : n \in 1..MaxMacdRows}

MacdInit ==
    /\ indIn \in MacdSeries
    /\ indOut = <<>>
    /\ indPc = "input"
    /\ NormOff
    /\ ApiOff
    /\ JobOff
    /\ SysIdle

\* macd_df = calculate_macd(df)
CalculateMacd ==
    /\ indPc = "input"
    /\ indOut' = calculate_macd(indIn, 26, 12, 9)
    /\ indPc' = "macd"
    /\ UNCHANGED <<indIn, normVars, apiVars, jobVars, sysVars>>

MacdNext == CalculateMacd

MacdSpec == MacdInit /\ [][MacdNext]_vars

----------------------------------------------------------------------------
(* GET /stock/{symbol}/indicators: the window the endpoint asks the service for *)

\* str.lower(), on the letters a period is written with
Lower(s) ==
    [i \in 1..Len(s) |->
        CASE s[i] = "D" -> "d" [] s[i] = "M" -> "m" [] s[i] = "O" -> "o"
          [] s[i] = "Y" -> "y" [] s[i] = "T" -> "t" [] s[i] = "A" -> "a"
          [] s[i] = "X" -> "x" [] OTHER -> s[i]]

DigitValue(c) ==
    CASE c = "0" -> 0 [] c = "1" -> 1 [] c = "2" -> 2 [] c = "3" -> 3 [] c = "4" -> 4
      [] c = "5" -> 5 [] c = "6" -> 6 [] c = "7" -> 7 [] c = "8" -> 8 [] c = "9" -> 9

RECURSIVE DigitsValue(_)
DigitsValue(s) ==
    IF s = <<>> THEN 0
    ELSE DigitsValue(SubSeq(s, 1, Len(s) - 1)) * 10 + DigitValue(s[Len(s)])

\* int(text): digits, a sign in front allowed; anything else raises ValueError
Signed(s) == Len(s) > 0 /\ s[1] \in {"-", "+"}
IntParses(s) == IsDigit(IF Signed(s) THEN Tail(s) ELSE s)
int(s) ==
    IF Signed(s)
    THEN (IF s[1] = "-" THEN 0 - DigitsValue(Tail(s)) ELSE DigitsValue(Tail(s)))
    ELSE DigitsValue(s)

\* s[:-n]
DropLast(s, n) == SubSeq(s, 1, Len(s) - n)

\* dates are day numbers of a calendar of 365-day years, day 0 the first of
\* January of year 0
YearDays == 365

\* datetime(d.year, 1, 1).date()
Jan1(d) == (d \div YearDays) * YearDays

\* lines 122-149: the delta of a period, in days, and whether the year-to-date
\* branch was taken; the branches are tried in the order of the code, and a
\* number that does not parse leaves the default of 7 days
PeriodDelta(p) ==
    IF EndsWith(p, <<"d">>)
    THEN [ytd |-> FALSE,
          delta |-> <<IF IntParses(DropLast(p, 1)) THEN int(DropLast(p, 1)) ELSE 7>>]
    ELSE IF EndsWith(p, <<"m", "o">>)
    THEN [ytd |-> FALSE,
          delta |-> <<IF IntParses(DropLast(p, 2)) THEN int(DropLast(p, 2)) * 30 ELSE 7>>]
    ELSE IF EndsWith(p, <<"y">>)
    THEN [ytd |-> FALSE,
          delta |-> <<IF IntParses(DropLast(p, 1)) THEN int(DropLast(p, 1)) * 365 ELSE 7>>]
    ELSE IF p = <<"y", "t", "d">> THEN [ytd |-> TRUE, delta |-> None]
    ELSE IF p = <<"m", "a", "x">> THEN [ytd |-> FALSE, delta |-> <<365 * 50>>]
    ELSE [ytd |-> FALSE, delta |-> <<7>>]

\* get_stock_indicators up to the call of the service: 400 for a date that does
\* not parse, else the window [s_date, e_date] handed to
\* get_stock_price_with_indicators; a missing query parameter is None
get_stock_indicators(period, start_date, end_date, today) ==
    IF start_date # None /\ ~ParsesOk(start_date[1]) THEN HttpError(400)
    ELSE IF end_date # None /\ ~ParsesOk(end_date[1]) THEN HttpError(400)
    ELSE
      LET target_end_date == IF end_date # None THEN strptime(end_date[1]) ELSE today
          given_or_default == IF start_date # None THEN strptime(start_date[1])
                              ELSE today - 7
          pd == PeriodDelta(Lower(period))
          by_period == IF pd.ytd THEN Jan1(target_end_date) ELSE given_or_default
          \* "if delta:" is false for None and for timedelta(0)
          target_start_date ==
              IF start_date # None THEN given_or_default
              ELSE IF pd.delta # None /\ pd.delta[1] # 0
                   THEN target_end_date - pd.delta[1]
                   ELSE by_period
      IN  [status |-> 200, code |-> 0,
           s_date |-> strftime(target_start_date),
           e_date |-> strftime(target_end_date)]

Periods ==
    { <<"7", "d">>, <<"1", "d">>, <<"3", "0", "d">>, <<"0", "d">>, <<"1", "m", "o">>,
      <<"3", "m", "o">>, <<"1", "y">>, <<"2", "y">>, <<"y", "t", "d">>,
      <<"Y", "T", "D">>, <<"m", "a", "x">>, <<"x", "d">>, <<"w", "e", "e", "k">> }

\* the days the requests are made on and the dates they name
ApiToday == {800, 1100}
ApiDates == {None, <<strftime(700)>>, <<strftime(750)>>, <<[day |-> 0, form |-> "bad"]>>}

IndicatorRequests ==
    [period : Periods, start_date : ApiDates, end_date : ApiDates, today : ApiToday]

ApiInit ==
    /\ apiIn \in IndicatorRequests
    /\ apiOut = <<>>
    /\ apiPc = "input"
    /\ NormOff
    /\ IndOff
    /\ JobOff
    /\ SysIdle

GetStockIndicators ==
    /\ apiPc = "input"
    /\ apiOut' = get_stock_indicators(apiIn.period, apiIn.start_date,
                                      apiIn.end_date, apiIn.today)
    /\ apiPc' = "indicators"
    /\ UNCHANGED <<apiIn, normVars, indVars, jobVars, sysVars>>

ApiNext == GetStockIndicators

ApiSpec == ApiInit /\ [][ApiNext]_vars

----------------------------------------------------------------------------
(* GET /stock/price: StockService.batch_get_prices and
   YFinanceProvider.batch_get_stock_info *)

MaxBatchSymbols == 2   \* symbols in one batch request

BatchSymbols ==
    { SymCN, SymBare,
      <<"s", "h", "6", "0", "0", "0", "0", "0">>,
      <<"A", "A", "P", "L">>,
      <<"0", "7", "0", "0">> \o dotHK }

\* the entry built from the last row of a ticker's frame
BatchEntry(sym, market) ==
    [symbol |-> sym, name |-> sym, price |-> round3(10000), market |-> market]

\* a plausible slip: the loop gives up at the first symbol without data
RECURSIVE BatchLoop_stop(_, _, _, _)
BatchLoop_stop(symbols, yf_symbols, columns, i) ==
    IF i > Len(symbols) THEN <<>>
    ELSE IF yf_symbols[i] \notin columns THEN <<>>
    ELSE <<BatchEntry(symbols[i], MarketOf(yf_symbols[i]))>>
         \o BatchLoop_stop(symbols, yf_symbols, columns, i + 1)

\* lines 358-406: one entry, under the symbol as requested, for every symbol
\* whose ticker is a column of the downloaded frame
RECURSIVE BatchLoop(_, _, _, _)
BatchLoop(symbols, yf_symbols, columns, i) ==
    IF i > Len(symbols) THEN <<>>
    ELSE (IF yf_symbols[i] \notin columns THEN <<>>
          ELSE <<BatchEntry(symbols[i], MarketOf(yf_symbols[i]))>>)
         \o BatchLoop(symbols, yf_symbols, columns, i + 1)

\* YFinanceProvider.batch_get_stock_info; columns are the tickers yf.download
\* has data for, fails tells that the download raised
batch_get_stock_info(symbols, columns, fails) ==
    IF symbols = <<>> THEN <<>>
    ELSE
      LET yf_symbols == [i \in 1..Len(symbols) |-> _normalize_symbol(symbols[i])]
      IN  IF fails THEN <<>>
          ELSE IF Len(yf_symbols) = 1
          THEN (IF yf_symbols[1] \notin columns THEN <<>>
                ELSE <<BatchEntry(symbols[1], "US")>>)
          ELSE BatchLoop(symbols, yf_symbols, columns, 1)

\* StockService.batch_get_prices: the provider's batch, nothing else
batch_get_prices(symbols, columns, fails) == batch_get_stock_info(symbols, columns, fails)

\* the endpoint: the list, or in mode simple the dict from symbol to price
\* (a later entry for the same symbol replaces an earlier one)
BatchResponse(data, mode) ==
    IF mode = "simple"
    THEN LET keys == {data[i].symbol : i \in 1..Len(data)}
             simple_data ==
                 [s \in keys |->
                     data[CHOOSE i \in 1..Len(data) :
                              /\ data[i].symbol = s
                              /\ \A j \in 1..Len(data) : data[j].symbol = s => j <= i].price]
         IN  [status |-> 200, code |-> 0, data |-> simple_data,
              total |-> Cardinality(keys)]
    ELSE [status |-> 200, code |-> 0, data |-> data, total |-> Len(data)]

Tickers(symbols) == {_normalize_symbol(symbols[i]) : i \in 1..Len(symbols)}

BatchInit ==
    /\ \E symbols \in UNION {[1..n -> BatchSymbols] : n \in 1..MaxBatchSymbols} :
       \E columns \in SUBSET Tickers(symbols), fails \in BOOLEAN,
          mode \in {"normal", "simple"} :
           apiIn = [symbols |-> symbols, columns |-> columns, fails |-> fails,
                    mode |-> mode]
    /\ apiOut = <<>>
    /\ apiPc = "input"
    /\ NormOff
    /\ IndOff
    /\ JobOff
    /\ SysIdle

\* GET /stock/price?symbols=...
BatchGetPrices ==
    /\ apiPc = "input"
    /\ apiOut' = BatchResponse(
                     batch_get_prices(apiIn.symbols, apiIn.columns, apiIn.fails),
                     apiIn.mode)
    /\ apiPc' = "batch"
    /\ UNCHANGED <<apiIn, normVars, indVars, jobVars, sysVars>>

BatchNext == BatchGetPrices

BatchSpec == BatchInit /\ [][BatchNext]_vars

----------------------------------------------------------------------------
(* calculate_td9 on long series that fall or rise a step a day *)

MaxRunRows == 15   \* rows of such a series

RunStart == 500000     \* the first close, 50.0
RunStep == 10000       \* a day's move, 1.0 up or down

\* the close of row i of the series that starts at RunStart and moves by
\* steps[j] from row j to row j + 1
RECURSIVE RunClose(_, _)
RunClose(steps, i) ==
    IF i = 1 THEN RunStart ELSE RunClose(steps, i - 1) + steps[i - 1] * RunStep

RunSeries ==
    { [i \in 1..MaxRunRows |-> RunClose(steps, i)] :
          steps \in [1..(MaxRunRows - 1) -> {0 - 1, 1}] }

RunInit ==
    /\ indIn \in RunSeries
    /\ indOut = <<>>
    /\ indPc = "input"
    /\ NormOff
    /\ ApiOff
    /\ JobOff
    /\ SysIdle

RunNext == CalculateTd9

RunSpec == RunInit /\ [][RunNext]_vars

----------------------------------------------------------------------------
(* calculate_td9 one iteration at a time: the counters between the rows *)

MaxFoldRows == 8   \* rows of a series folded step by step

FoldSeries == UNION {[1..n -> CloseValues] : n \in 0..MaxFoldRows}

\* a plausible slip: a rise does not reset the buy count
Td9Step_noreset(close, st) ==
    LET c == close[st.i]
        c_4 == close[st.i - 4]
        buy == IF c < c_4 THEN st.buy_setup_count + 1
               ELSE IF c > c_4 THEN st.buy_setup_count ELSE 0
        sell == IF c < c_4 THEN 0 ELSE IF c > c_4 THEN st.sell_setup_count + 1 ELSE 0
        value == IF buy > 0 THEN buy ELSE IF sell > 0 THEN 0 - sell ELSE st.td_values[st.i]
    IN  [i |-> st.i + 1, buy_setup_count |-> buy, sell_setup_count |-> sell,
         td_values |-> [st.td_values EXCEPT ![st.i] = value]]

\* one iteration of the loop of calculate_td9, on row st.i (index st.i - 1 of
\* the code)
Td9Step(close, st) ==
    LET c == close[st.i]
        c_4 == close[st.i - 4]
        buy == IF c < c_4 THEN st.buy_setup_count + 1 ELSE 0
        sell == IF c < c_4 THEN 0 ELSE IF c > c_4 THEN st.sell_setup_count + 1 ELSE 0
        value == IF buy > 0 THEN buy ELSE IF sell > 0 THEN 0 - sell ELSE st.td_values[st.i]
    IN  [i |-> st.i + 1, buy_setup_count |-> buy, sell_setup_count |-> sell,
         td_values |-> [st.td_values EXCEPT ![st.i] = value]]

FoldInit ==
    /\ indIn \in FoldSeries
    /\ indOut = <<>>
    /\ indPc = "input"
    /\ NormOff
    /\ ApiOff
    /\ JobOff
    /\ SysIdle

\* the zero series and the counters before the loop; a series shorter than 5
\* is returned as it is
Td9Begin ==
    /\ indPc = "input"
    /\ indOut' = [i |-> 5, buy_setup_count |-> 0, sell_setup_count |-> 0,
                  td_values |-> [k \in 1..Len(indIn) |-> 0]]
    /\ indPc' = IF Len(indIn) < 5 THEN "folded" ELSE "fold"
    /\ UNCHANGED <<indIn, normVars, apiVars, jobVars, sysVars>>

\* for i in range(4, len(df)): one row; the series is returned after the last
Td9Iterate ==
    /\ indPc = "fold"
    /\ indOut' = Td9Step(indIn, indOut)
    /\ indPc' = IF indOut.i + 1 > Len(indIn) THEN "folded" ELSE "fold"
    /\ UNCHANGED <<indIn, normVars, apiVars, jobVars, sysVars>>

FoldNext ==
    \/ Td9Begin
    \/ Td9Iterate

FoldSpec == FoldInit /\ [][FoldNext]_vars

----------------------------------------------------------------------------
(* The store: the session's queries and commits *)

\* self.db.query(Stock).filter(Stock.code == code).first()
FindStock(code) ==
    LET rows == {r \in stockTable : r.code = code}
    IN  IF rows = {} THEN None ELSE <<CHOOSE r \in rows : TRUE>>

\* a plausible slip: the lookup never finds a stored bar
FindBar_blind(code, day) == None

\* self.db.query(PriceHistory).filter(stock_code == code, date == day).first()
FindBar(code, day) ==
    LET rows == {r \in BagToSet(priceTable) : r.stock_code = code /\ r.date = day}
    IN  IF rows = {} THEN None ELSE <<CHOOSE r \in rows : TRUE>>

\* the primary key of Stock: an INSERT of a code already there is refused
StockPkConflict(code) == \E r \in stockTable : r.code = code

\* a table without the unique index
BarUniqueConflict_noindex(pend) == FALSE

\* idx_stock_date, unique: an INSERT that repeats a (stock_code, date), of the
\* table or of the same flush, is refused
BarUniqueConflict(pend) ==
    \/ \E i \in 1..Len(pend) : \E r \in BagToSet(priceTable) :
           r.stock_code = pend[i].stock_code /\ r.date = pend[i].date
    \/ \E i, j \in 1..Len(pend) :
           i < j /\ pend[i].stock_code = pend[j].stock_code /\ pend[i].date = pend[j].date

\* the rows an INSERT of the pending bars adds, one row each
RECURSIVE NewBarRows(_)
NewBarRows(pend) ==
    IF pend = <<>> THEN EmptyBag
    ELSE SetToBag({Head(pend)}) (+) NewBarRows(Tail(pend))

\* for item in hist_data: if item['date'] == date: return item
SearchBatch(hist_data, date) ==
    LET hits == {i \in 1..Len(hist_data) : hist_data[i].date = date}
    IN  IF hits = {} THEN None
        ELSE <<hist_data[CHOOSE i \in hits : \A j \in hits : i <= j]>>

SetProc(p, rec) == proc' = [proc EXCEPT ![p] = rec]

\* the handler has returned value to the API layer: its frame is gone; what was
\* asked, what happened on the way and the value returned stay on record
Done(me, value) ==
    [InitProc EXCEPT !.pc = "done", !.op = me.op, !.symbol = me.symbol, !.date = me.date,
                     !.hit = me.hit, !.getRaised = me.getRaised,
                     !.setRaised = me.setRaised, !.infoCalled = me.infoCalled,
                     !.histCalled = me.histCalled, !.ensured = me.ensured,
                     !.storeHit = me.storeHit, !.range = me.range,
                     !.end_date = me.end_date, !.provEmpty = me.provEmpty,
                     !.histCalls = me.histCalls,
                     !.ret = value]

\* get_stock_info returns: to the API, or into get_price_history after line
\* 113, which drops the value and with it the locals of the call
ReturnInfo(me, value) ==
    IF me.nested
    THEN [me EXCEPT !.pc = "upsert_bars", !.nested = FALSE, !.data = None,
                    !.hit = FALSE, !.getRaised = FALSE, !.setRaised = FALSE,
                    !.provEmpty = FALSE]
    ELSE Done(me, value)

\* an exception leaves the handler; the session is closed, its pending rows dropped
Raise(me, e) == [Done(me, None) EXCEPT !.pc = "raised", !.exc = e]

----------------------------------------------------------------------------
(* StockService.get_stock_info *)

\* a plausible slip: when the provider has nothing, an expired entry is served
InfoLookup_stale(p, me0, fails, data) ==
    LET me == [me0 EXCEPT !.getRaised = fails]
        key == cache_key(me.symbol)
        cached_data == IF fails THEN None ELSE RedisGetValue(key)
    IN  IF cached_data # None
        THEN SetProc(p, ReturnInfo([me EXCEPT !.hit = TRUE], <<loads(cached_data[1])>>))
        ELSE IF data = None
        THEN SetProc(p, ReturnInfo([me EXCEPT !.infoCalled = TRUE, !.provEmpty = TRUE],
                                   IF cache[key] = None THEN None
                                   ELSE <<loads(cache[key][1].val)>>))
        ELSE SetProc(p, [me EXCEPT !.infoCalled = TRUE, !.data = data,
                                   !.pc = "query_stock"])

\* lines 30-41: the cache is read (a failing read is a miss); on a miss the
\* provider is asked.  fails: the Redis read raises; data: the provider's answer
InfoLookup(p, me0, fails, data) ==
    LET me == [me0 EXCEPT !.getRaised = fails]
        cached_data == IF fails THEN None ELSE RedisGetValue(cache_key(me.symbol))
    IN  IF cached_data # None
        THEN SetProc(p, ReturnInfo([me EXCEPT !.hit = TRUE], <<loads(cached_data[1])>>))
        ELSE IF data = None
        THEN SetProc(p, ReturnInfo([me EXCEPT !.infoCalled = TRUE,
                                              !.provEmpty = TRUE], None))
        ELSE SetProc(p, [me EXCEPT !.infoCalled = TRUE, !.data = data,
                                   !.pc = "query_stock"])

\* a handler is free before its first request and after each response
Free(p) == proc[p].pc \in {"idle", "done", "raised"}

\* a request goes to the first free handler
Accepts(p) ==
    /\ Free(p)
    /\ \A q \in Procs : q < p => ~Free(q)

\* GET /stock/{symbol}: get_stock_info is entered
StartInfo(p, symbol, fails, data) ==
    /\ Accepts(p)
    /\ calls' = calls + 1
    /\ InfoLookup(p, [InitProc EXCEPT !.op = "info", !.symbol = symbol], fails, data)
    /\ UNCHANGED <<pureVars, stockTable, priceTable, cache, now>>

\* line 113: get_stock_info is entered from get_price_history
RedisGet(p, fails, data) ==
    /\ proc[p].pc = "redis_get"
    /\ InfoLookup(p, proc[p], fails, data)
    /\ UNCHANGED <<pureVars, stockTable, priceTable, cache, now, calls>>

\* lines 43-63: the record is looked up by its normalized code; a new one is
\* added to the session, a found one gets name and update_time assigned
QueryStock(p) ==
    /\ proc[p].pc = "query_stock"
    /\ LET me == proc[p]
           data == me.data[1]
           db_code == _normalize_code(me.symbol)
           stock == FindStock(db_code)
       IN  IF stock = None
           THEN SetProc(p, [me EXCEPT
                    !.pc = "commit_stock", !.stock = None,
                    !.pendStock = <<[kind |-> "insert",
                                     row |-> [code |-> db_code, symbol |-> db_code,
                                              name |-> data.name, market |-> data.market,
                                              update_time |-> now]]>>])
           ELSE SetProc(p, [me EXCEPT
                    !.pc = "commit_stock", !.stock = stock,
                    !.pendStock = <<[kind |-> "update",
                                     row |-> [stock[1] EXCEPT !.name = data.name,
                                                              !.update_time = now]]>>])
    /\ UNCHANGED <<pureVars, stockTable, priceTable, cache, now, calls>>

\* the row an UPDATE leaves: only the columns whose value was changed on the
\* loaded object are written (update_time is a fresh timestamp, always written)
UpdatedRow(r, loaded, assigned) ==
    [r EXCEPT !.name = IF assigned.name # loaded.name THEN assigned.name ELSE r.name,
              !.market = IF assigned.market # loaded.market THEN assigned.market ELSE r.market,
              !.update_time = assigned.update_time]

\* a handler that swallows a failed commit and goes on to the cache
CommitStock_swallow(p) ==
    /\ proc[p].pc = "commit_stock"
    /\ LET me == proc[p]
           pend == me.pendStock[1]
       IN  /\ stockTable' =
                 IF pend.kind = "insert"
                 THEN (IF StockPkConflict(pend.row.code) THEN stockTable
                       ELSE stockTable \cup {pend.row})
                 ELSE { IF r.code = pend.row.code
                        THEN UpdatedRow(r, me.stock[1], pend.row) ELSE r
                        : r \in stockTable }
           /\ SetProc(p, [me EXCEPT !.pc = "redis_set", !.pendStock = None])
    /\ UNCHANGED <<pureVars, priceTable, cache, now, calls>>

\* a handler that leaves without committing: the pending row is rolled back
CommitStock_nocommit(p) ==
    /\ proc[p].pc = "commit_stock"
    /\ SetProc(p, [proc[p] EXCEPT !.pc = "redis_set", !.pendStock = None])
    /\ UNCHANGED <<pureVars, stockTable, priceTable, cache, now, calls>>

\* line 64: self.db.commit()
CommitStock(p) ==
    /\ proc[p].pc = "commit_stock"
    /\ LET me == proc[p]
           pend == me.pendStock[1]
       IN  IF pend.kind = "insert"
           THEN IF StockPkConflict(pend.row.code)
                THEN /\ SetProc(p, Raise(me, "IntegrityError"))
                     /\ UNCHANGED stockTable
                ELSE /\ stockTable' = stockTable \cup {pend.row}
                     /\ SetProc(p, [me EXCEPT !.pc = "redis_set", !.pendStock = None])
           ELSE /\ stockTable' =
                       { IF r.code = pend.row.code
                         THEN UpdatedRow(r, me.stock[1], pend.row) ELSE r
                         : r \in stockTable }
                /\ SetProc(p, [me EXCEPT !.pc = "redis_set", !.pendStock = None])
    /\ UNCHANGED <<pureVars, priceTable, cache, now, calls>>

\* a handler whose cache write is not guarded
RedisSet_unguarded(p, fails) ==
    /\ proc[p].pc = "redis_set"
    /\ LET me == [proc[p] EXCEPT !.setRaised = fails]
       IN  IF fails
           THEN /\ SetProc(p, Raise(me, "RedisError"))
                /\ UNCHANGED cache
           ELSE /\ cache' = [cache EXCEPT ![cache_key(me.symbol)] =
                                <<[val |-> dumps(me.data[1]), exp |-> now + CACHE_EXPIRE]>>]
                /\ SetProc(p, ReturnInfo(me, me.data))
    /\ UNCHANGED <<pureVars, stockTable, priceTable, now, calls>>

\* lines 66-72: the payload is cached for CACHE_EXPIRE seconds (a failing write
\* is ignored) and returned.  fails: the Redis write raises
RedisSet(p, fails) ==
    /\ proc[p].pc = "redis_set"
    /\ LET me == [proc[p] EXCEPT !.setRaised = fails]
       IN  /\ cache' = IF fails THEN cache
                       ELSE [cache EXCEPT ![cache_key(me.symbol)] =
                                <<[val |-> dumps(me.data[1]), exp |-> now + CACHE_EXPIRE]>>]
           /\ SetProc(p, ReturnInfo(me, me.data))
    /\ UNCHANGED <<pureVars, stockTable, priceTable, now, calls>>

----------------------------------------------------------------------------
(* StockService.get_price_history *)

\* the dict returned for a stored bar
StoredBar(row) ==
    [date |-> row.date, open |-> round3(row.open), close |-> round3(row.close),
     high |-> round3(row.high), low |-> round3(row.low), volume |-> row.volume]

\* GET /stock/{symbol}/price?date=..., lines 77-113: the date is parsed, the
\* store is searched; on a miss the provider is asked for the days around the
\* date (hist_data is its answer), and a missing record makes the handler call
\* get_stock_info
StartHistory(p, symbol, date, hist_data) ==
    /\ Accepts(p)
    /\ calls' = calls + 1
    /\ LET me == [InitProc EXCEPT !.op = "history", !.symbol = symbol, !.date = date]
       IN  IF ~ParsesOk(me.date)
           THEN SetProc(p, Raise(me, "ValueError"))
           ELSE
             LET target_date == strptime(me.date)
                 db_code == _normalize_code(me.symbol)
                 stock == FindStock(db_code)
                 db_history == IF stock = None THEN None
                               ELSE FindBar(stock[1].code, target_date)
                 start_date == strftime(target_date - HISTORY_BUFFER_DAYS)
                 end_date == strftime(target_date + HISTORY_BUFFER_DAYS)
             IN  IF db_history # None
                 THEN SetProc(p, Done([me EXCEPT !.storeHit = TRUE],
                                      <<StoredBar(db_history[1])>>))
                 ELSE LET me2 == [me EXCEPT !.stock = stock, !.histCalled = TRUE,
                                            !.histCalls = me.histCalls + 1,
                                            !.range = <<start_date, end_date>>,
                                            !.hist_data = hist_data]
                      IN  IF hist_data = <<>>
                          THEN SetProc(p, Done([me2 EXCEPT !.provEmpty = TRUE], None))
                          ELSE IF stock = None
                          THEN SetProc(p, [me2 EXCEPT !.pc = "redis_get", !.nested = TRUE,
                                                      !.ensured = TRUE])
                          ELSE SetProc(p, [me2 EXCEPT !.pc = "upsert_bars"])
    /\ UNCHANGED <<pureVars, stockTable, priceTable, cache, now>>

\* the bars the loop of lines 117-134 adds to the session for the items
\* hist_data[k..]: an item is added unless the exists query finds a bar for its
\* date, among the stored rows or, in an autoflushing session, among the rows
\* already added (pend)
RECURSIVE AddedBars(_, _, _, _, _)
AddedBars(hist_data, k, code, pend, autoflush) ==
    IF k > Len(hist_data) THEN pend
    ELSE
      LET item == hist_data[k]
          item_date == strptime(item.date)
          exists ==
              \/ FindBar(code, item_date) # None
              \/ /\ autoflush
                 /\ \E n \in 1..Len(pend) : pend[n].date = item_date
          ph == [stock_code |-> code, date |-> item_date, open |-> item.open,
                 close |-> item.close, high |-> item.high, low |-> item.low,
                 volume |-> item.volume]
      IN  AddedBars(hist_data, k + 1, code,
                    IF exists THEN pend ELSE Append(pend, ph), autoflush)

\* a handler that keeps the empty lookup of line 83 instead of reading again
UpsertBars_stale(p, autoflush) ==
    /\ proc[p].pc = "upsert_bars"
    /\ LET me == proc[p]
       IN  IF me.stock = None
           THEN SetProc(p, Done(me, SearchBatch(me.hist_data, me.date)))
           ELSE SetProc(p, [me EXCEPT !.pc = "commit_bars",
                    !.pendBars = AddedBars(me.hist_data, 1, me.stock[1].code,
                                           <<>>, autoflush)])
    /\ UNCHANGED <<pureVars, stockTable, priceTable, cache, now, calls>>

\* lines 109-134: after get_stock_info the record is read again; without a
\* record no bar is stored and the batch is searched at once; with one, every
\* item of the batch goes through the exists query.  The queries of one pass
\* read the table as one: rows are only ever added, so a commit that lands
\* between two of them leaves nothing that a pass wholly before or wholly after
\* it does not.  autoflush: the setting the session factory gave the session
UpsertBars(p, autoflush) ==
    /\ proc[p].pc = "upsert_bars"
    /\ LET me == proc[p]
           stock == IF me.ensured THEN FindStock(_normalize_code(me.symbol)) ELSE me.stock
       IN  IF stock = None
           THEN SetProc(p, Done(me, SearchBatch(me.hist_data, me.date)))
           ELSE SetProc(p, [me EXCEPT !.pc = "commit_bars", !.stock = stock,
                    !.pendBars = AddedBars(me.hist_data, 1, stock[1].code,
                                           <<>>, autoflush)])
    /\ UNCHANGED <<pureVars, stockTable, priceTable, cache, now, calls>>

\* a handler that writes its bars over the stored ones
CommitBars_overwrite(p) ==
    /\ proc[p].pc = "commit_bars"
    /\ LET me == proc[p]
           kept == {r \in BagToSet(priceTable) : ~\E i \in 1..Len(me.pendBars) :
                       r.stock_code = me.pendBars[i].stock_code
                       /\ r.date = me.pendBars[i].date}
           last == {i \in 1..Len(me.pendBars) :
                       ~\E k \in (i + 1)..Len(me.pendBars) :
                           me.pendBars[k].date = me.pendBars[i].date}
       IN  /\ priceTable' = SetToBag(kept \cup {me.pendBars[i] : i \in last})
           /\ SetProc(p, Done(me, SearchBatch(me.hist_data, me.date)))
    /\ UNCHANGED <<pureVars, stockTable, cache, now, calls>>

\* lines 135-141: self.db.commit(), then the batch is searched for the date
CommitBars(p) ==
    /\ proc[p].pc = "commit_bars"
    /\ LET me == proc[p]
       IN  IF BarUniqueConflict(me.pendBars)
           THEN /\ SetProc(p, Raise(me, "IntegrityError"))
                /\ UNCHANGED priceTable
           ELSE /\ priceTable' = priceTable (+) NewBarRows(me.pendBars)
                /\ SetProc(p, Done(me, SearchBatch(me.hist_data, me.date)))
    /\ UNCHANGED <<pureVars, stockTable, cache, now, calls>>

----------------------------------------------------------------------------
(* StockService.get_stock_price_with_indicators as a request *)

\* timedelta(days=250) of get_stock_price_with_indicators
INDICATOR_BUFFER_DAYS == 250

\* a plausible slip: the series is fetched from the requested start
IndicatorRange_nobuffer(req_start, end_date) == <<strftime(req_start), end_date>>

\* lines 216-221: the range the provider is asked for
IndicatorRange(req_start, end_date) ==
    <<strftime(req_start - INDICATOR_BUFFER_DAYS), end_date>>

\* the batches the provider answers an indicator request with
IndicatorBatches == {<<>>, SeriesData(<<10000, 20000>>)}

\* a handler that also stores the bars it fetched
StartIndicators_upsert(p, symbol, start_date, end_date, raw_data) ==
    /\ Accepts(p)
    /\ calls' = calls + 1
    /\ LET me == [InitProc EXCEPT !.op = "indicators", !.symbol = symbol,
                                  !.date = start_date, !.end_date = end_date,
                                  !.histCalled = TRUE, !.histCalls = 1,
                                  !.range = IndicatorRange(strptime(start_date), end_date),
                                  !.provEmpty = (raw_data = <<>>)]
           rows == [i \in 1..Len(raw_data) |->
                       [stock_code |-> _normalize_code(symbol),
                        date |-> strptime(raw_data[i].date), open |-> raw_data[i].open,
                        close |-> raw_data[i].close, high |-> raw_data[i].high,
                        low |-> raw_data[i].low, volume |-> raw_data[i].volume]]
       IN  /\ SetProc(p, Done(me, <<get_stock_price_with_indicators(
                                      raw_data, start_date, end_date)>>))
           /\ priceTable' = priceTable (+) NewBarRows(rows)
    /\ UNCHANGED <<pureVars, stockTable, cache, now>>

\* GET /stock/{symbol}/indicators, get_stock_price_with_indicators: both dates
\* are parsed, the provider is asked for the series from 250 days before the
\* start, and the rows of the window are returned (a list: <<rows>>)
StartIndicators(p, symbol, start_date, end_date, raw_data) ==
    /\ Accepts(p)
    /\ calls' = calls + 1
    /\ LET me == [InitProc EXCEPT !.op = "indicators", !.symbol = symbol,
                                  !.date = start_date, !.end_date = end_date]
       IN  IF ~ParsesOk(start_date) \/ ~ParsesOk(end_date)
           THEN SetProc(p, Raise(me, "ValueError"))
           ELSE LET me2 == [me EXCEPT
                               !.histCalled = TRUE,
                               !.histCalls = me.histCalls + 1,
                               !.range = IndicatorRange(strptime(start_date), end_date),
                               !.provEmpty = (raw_data = <<>>)]
                IN  SetProc(p, Done(me2, <<get_stock_price_with_indicators(
                                              raw_data, start_date, end_date)>>))
    /\ UNCHANGED <<pureVars, stockTable, priceTable, cache, now>>

----------------------------------------------------------------------------
(* The environment and the system as a whole *)

\* time passes, half a day at a time; a request is over in seconds, so the
\* clock moves between requests
Tick ==
    /\ now < MaxTicks * TickSeconds
    /\ \A p \in Procs : Free(p)
    /\ now' = now + TickSeconds
    /\ UNCHANGED <<pureVars, stockTable, priceTable, cache, calls, proc>>

Init ==
    /\ normIn = <<>>
    /\ normOut = <<>>
    /\ normOut2 = <<>>
    /\ normPc = "off"
    /\ IndOff
    /\ ApiOff
    /\ JobOff
    /\ stockTable = {}
    /\ priceTable = EmptyBag
    /\ cache = [k \in CacheKeys |-> None]
    /\ now = 0
    /\ calls = 0
    /\ proc = [p \in Procs |-> InitProc]

\* one request at a time: a request arrives when no handler is at work
Serial == \A q \in Procs : Free(q)

Next ==
    \/ \E p \in Procs, s \in Symbols, fails \in BOOLEAN : \E data \in ProviderGetStockInfo(s) :
           calls < MaxCalls /\ Serial /\ StartInfo(p, s, fails, data)
    \/ \E p \in Procs, s \in Symbols, d \in DateStrings, h \in ProviderGetPriceHistory :
           calls < MaxCalls /\ Serial /\ StartHistory(p, s, d, h)
    \/ \E p \in Procs, fails \in BOOLEAN : \E data \in ProviderGetStockInfo(proc[p].symbol) :
           RedisGet(p, fails, data)
    \/ \E p \in Procs : QueryStock(p)
    \/ \E p \in Procs : CommitStock(p)
    \/ \E p \in Procs, fails \in BOOLEAN : RedisSet(p, fails)
    \/ \E p \in Procs, autoflush \in BOOLEAN : UpsertBars(p, autoflush)
    \/ \E p \in Procs : CommitBars(p)
    \/ \E p \in Procs, s \in Symbols, d1, d2 \in {strftime(d) : d \in Days},
          raw_data \in IndicatorBatches :
           calls < MaxCalls /\ Serial /\ StartIndicators(p, s, d1, d2, raw_data)
    \/ Tick

Spec == Init /\ [][Next]_vars

\* overlapping requests for one instrument, under either spelling of its code:
\* a request arrives whenever a handler is free.  The requests fall within one
\* grain of the clock, the cache backend is healthy and the provider quotes one
\* price.
OverlapSymbols == {s \in Symbols : _normalize_code(s) = SymBare}

OverlapInfo(s) == {d \in ProviderGetStockInfo(s) : d = None \/ d[1].price = 10000}

\* the provider's bars are all of one day, so that every batch meets the same key
OverlapHistory ==
    {h \in ProviderGetPriceHistory : \A i \in 1..Len(h) : h[i].date = strftime(1)}

OverlapNext ==
    \/ \E p \in Procs, s \in OverlapSymbols : \E data \in OverlapInfo(s) :
           calls < MaxOverlap /\ StartInfo(p, s, FALSE, data)
    \/ \E p \in Procs, s \in OverlapSymbols, d \in DateStrings, h \in OverlapHistory :
           calls < MaxOverlap /\ StartHistory(p, s, d, h)
    \/ \E p \in Procs : \E data \in OverlapInfo(proc[p].symbol) : RedisGet(p, FALSE, data)
    \/ \E p \in Procs : QueryStock(p)
    \/ \E p \in Procs : CommitStock(p)
    \/ \E p \in Procs : RedisSet(p, FALSE)
    \/ \E p \in Procs, autoflush \in BOOLEAN : UpsertBars(p, autoflush)
    \/ \E p \in Procs : CommitBars(p)

OverlapSpec == Init /\ [][OverlapNext]_vars

----------------------------------------------------------------------------
(* app/core/scheduler.py: sync_all_stocks_job, and StockService.sync_all_stocks *)

MaxRuns == 2       \* runs of the job
MaxJobDays == 2    \* days the clock advances
MaxListing == 2    \* entries of a market listing

DaySeconds == 86400

\* ex=86400 * 2
SYNC_KEY_EXPIRE == 86400 * 2

\* datetime.now().strftime("%Y-%m-%d")
Today == strftime(now \div DaySeconds)

Sym600 == <<"6", "0", "0", "0", "0", "0">>

\* rows of ak.stock_info_a_code_name(): a six-digit code and a name
ListingEntries == [symbol : {SymBare, Sym600}, name : {<<"A">>, <<"B">>}, market : {"CN"}]

\* the listings ak.stock_info_a_code_name() may hold
CnListings == UNION {[1..n -> ListingEntries] : n \in 0..MaxListing}

\* AkShareProvider.get_stock_list("CN"): the entries of the frame, [] when
\* the source raises
ak_get_stock_list(frame, fails) == IF fails THEN <<>> ELSE frame

\* provider.get_stock_list(market): AkShare for CN, YFinanceProvider (which
\* returns []) for the others
get_stock_list(market, cn) == IF market = "CN" THEN cn ELSE <<>>

\* the record get_stock_info("830799") leaves when it is asked before the job runs
RequestedRecord ==
    [code |-> SymBare, symbol |-> SymBare, name |-> SymBare, market |-> "US",
     update_time |-> 0]

InitJob ==
    [ pc |-> "idle", runs |-> 0, today |-> NoDate, skipped |-> FALSE,
      gateRaised |-> FALSE, listed |-> FALSE, listRaised |-> FALSE, listing |-> <<>>,
      exc |-> "none", markRaised |-> FALSE, count |-> 0 ]

\* lines 167-193, the loop over one listing from entry k on: rows are the rows
\* the query sees (with the changes made so far), added the new objects the
\* session holds; an autoflushing session writes a new object out before the
\* next query, another one keeps it pending where the query does not see it
RECURSIVE SyncLoop(_, _, _, _, _)
SyncLoop(stocks, k, rows, added, autoflush) ==
    IF k > Len(stocks) THEN [rows |-> rows, added |-> added]
    ELSE
      LET s == stocks[k]
          code == _normalize_code(s.symbol)
          existing == {r \in rows : r.code = code}
          new_stock == [code |-> code, symbol |-> code, name |-> s.name,
                        market |-> s.market, update_time |-> now]
      IN  IF existing = {}
          THEN (IF autoflush
                THEN SyncLoop(stocks, k + 1, rows \cup {new_stock}, added, autoflush)
                ELSE SyncLoop(stocks, k + 1, rows, Append(added, new_stock), autoflush))
          ELSE SyncLoop(stocks, k + 1,
                        { IF r.code = code
                          THEN [r EXCEPT !.name = s.name, !.market = s.market,
                                         !.update_time = now]
                          ELSE r : r \in rows },
                        added, autoflush)

\* line 194, self.db.commit() after a market: two pending objects with one
\* primary key make the flush fail, and nothing of the market is written
SyncMarket(table, stocks, autoflush) ==
    LET r == SyncLoop(stocks, 1, table, <<>>, autoflush)
        conflict == \E i, j \in 1..Len(r.added) : i # j /\ r.added[i].code = r.added[j].code
    IN  IF conflict THEN [ok |-> FALSE, table |-> table]
        ELSE [ok |-> TRUE, table |-> r.rows \cup {r.added[i] : i \in 1..Len(r.added)}]

RECURSIVE SyncMarkets(_, _, _, _, _, _)
SyncMarkets(markets, k, table, cn, autoflush, count) ==
    IF k > Len(markets) THEN [ok |-> TRUE, table |-> table, count |-> count]
    ELSE
      LET stocks == get_stock_list(markets[k], cn)
          m == SyncMarket(table, stocks, autoflush)
      IN  IF ~m.ok THEN [ok |-> FALSE, table |-> table, count |-> count]
          ELSE SyncMarkets(markets, k + 1, m.table, cn, autoflush, count + Len(stocks))

\* StockService.sync_all_stocks: the markets in turn; ok is false when a commit raised
sync_all_stocks(table, cn, autoflush) ==
    SyncMarkets(<<"CN", "US", "HK">>, 1, table, cn, autoflush, 0)

\* lines 12-29 of the job for an invocation whose locals are me0: it reads
\* the marker; a marker of today ends the run, a failing read does not
GateOutcome(me0, fails) ==
    LET last_run == IF marker # None /\ RedisLive(marker[1])
                    THEN <<marker[1].val>> ELSE None
        me == [InitJob EXCEPT !.runs = me0.runs + 1, !.today = Today,
                              !.gateRaised = fails]
    IN  IF ~fails /\ last_run = <<Today>>
        THEN [me EXCEPT !.pc = "done", !.skipped = TRUE]
        ELSE [me EXCEPT !.pc = "sync"]

\* lines 31-35 and 42-45: the bulk sync; whatever it raises is caught and
\* logged, and the run ends without touching the marker.  A store that is
\* down (storeFails) raises at the first query, so not when nothing is listed
SyncOutcome(me, table, frame, listFails, autoflush, storeFails) ==
    LET cn == ak_get_stock_list(frame, listFails)
        r == sync_all_stocks(table, cn, autoflush)
        raised == storeFails /\ cn # <<>>
    IN  [ job |-> [me EXCEPT !.pc = IF ~raised /\ r.ok THEN "mark" ELSE "done",
                             !.listed = TRUE,
                             !.listRaised = listFails,
                             !.listing = cn,
                             !.exc = IF raised THEN "OperationalError"
                                     ELSE IF r.ok THEN "none" ELSE "IntegrityError",
                             !.count = IF raised THEN 0 ELSE r.count],
          table |-> IF raised THEN table ELSE r.table ]

\* lines 37-40: redis_client.set(key, today, ex=86400 * 2), a failure logged
MarkOutcome(me, fails) ==
    [ job |-> [me EXCEPT !.pc = "done", !.markRaised = fails],
      marker |-> IF fails THEN marker
                 ELSE <<[val |-> me.today, exp |-> now + SYNC_KEY_EXPIRE]>> ]

\* a plausible slip: a marker that cannot be read counts as "already ran"
JobGate_skiponfail(fails) ==
    /\ job.pc \in {"idle", "done"}
    /\ job.runs < MaxRuns
    /\ LET last_run == IF marker # None /\ RedisLive(marker[1])
                       THEN <<marker[1].val>> ELSE None
           me == [InitJob EXCEPT !.runs = job.runs + 1, !.today = Today,
                                 !.gateRaised = fails]
       IN  IF fails \/ last_run = <<Today>>
           THEN job' = [me EXCEPT !.pc = "done", !.skipped = TRUE]
           ELSE job' = [me EXCEPT !.pc = "sync"]
    /\ UNCHANGED <<normVars, indVars, apiVars, marker, sysVars>>

\* the job starts: a run of the scheduler's job, one after the other
JobGate(fails) ==
    /\ job.pc \in {"idle", "done"}
    /\ job.runs < MaxRuns
    /\ job' = GateOutcome(job, fails)
    /\ UNCHANGED <<normVars, indVars, apiVars, marker, sysVars>>

\* a plausible slip: the marker is written whether or not the sync went through
JobSync_marks(frame, listFails, autoflush, storeFails) ==
    /\ job.pc = "sync"
    /\ LET o == SyncOutcome(job, stockTable, frame, listFails, autoflush, storeFails)
       IN  /\ stockTable' = o.table
           /\ job' = [o.job EXCEPT !.pc = "mark"]
    /\ UNCHANGED <<offJobVars, marker, priceTable, cache, now, calls, proc>>

\* the bulk sync of the run
JobSync(frame, listFails, autoflush, storeFails) ==
    /\ job.pc = "sync"
    /\ LET o == SyncOutcome(job, stockTable, frame, listFails, autoflush, storeFails)
       IN  /\ stockTable' = o.table
           /\ job' = o.job
    /\ UNCHANGED <<offJobVars, marker, priceTable, cache, now, calls, proc>>

\* the marker write of the run
JobMark(fails) ==
    /\ job.pc = "mark"
    /\ LET o == MarkOutcome(job, fails)
       IN  /\ job' = o.job
           /\ marker' = o.marker
    /\ UNCHANGED <<normVars, indVars, apiVars, sysVars>>

\* a day passes between two runs
NextDay ==
    /\ job.pc \in {"idle", "done"}
    /\ now < MaxJobDays * DaySeconds
    /\ now' = now + DaySeconds
    /\ UNCHANGED <<pureVars, stockTable, priceTable, cache, calls, proc>>

SyncInit ==
    /\ NormOff
    /\ IndOff
    /\ ApiOff
    /\ marker = None
    /\ job = InitJob
    /\ stockTable \in {{}, {RequestedRecord}}
    /\ priceTable = EmptyBag
    /\ cache = [k \in CacheKeys |-> None]
    /\ now = 0
    /\ calls = 0
    /\ proc = [p \in Procs |-> InitProc]

SyncNext ==
    \/ \E fails \in BOOLEAN : JobGate(fails)
    \/ \E frame \in CnListings, listFails, autoflush, storeFails \in BOOLEAN :
           JobSync(frame, listFails, autoflush, storeFails)
    \/ \E fails \in BOOLEAN : JobMark(fails)
    \/ NextDay

SyncSpec == SyncInit /\ [][SyncNext]_vars

----------------------------------------------------------------------------
(* Invocations of sync_all_stocks_job that may overlap: start_scheduler adds
   the job twice (the cron job and the run 5 seconds after startup), and every
   worker process starts a scheduler of its own.  Here job holds the locals of
   each invocation; the marker store, the provider and the store work. *)

Jobs == {1, 2}

RaceInit ==
    /\ NormOff
    /\ IndOff
    /\ ApiOff
    /\ marker = None
    /\ job = [j \in Jobs |-> InitJob]
    /\ stockTable = {}
    /\ priceTable = EmptyBag
    /\ cache = [k \in CacheKeys |-> None]
    /\ now = 0
    /\ calls = 0
    /\ proc = [p \in Procs |-> InitProc]

\* invocation j starts and reads the marker
RaceGate(j) ==
    /\ job[j].pc = "idle"
    /\ job' = [job EXCEPT ![j] = GateOutcome(job[j], FALSE)]
    /\ UNCHANGED <<normVars, indVars, apiVars, marker, sysVars>>

\* the bulk sync of invocation j
RaceSync(j, frame, autoflush) ==
    /\ job[j].pc = "sync"
    /\ LET o == SyncOutcome(job[j], stockTable, frame, FALSE, autoflush, FALSE)
       IN  /\ stockTable' = o.table
           /\ job' = [job EXCEPT ![j] = o.job]
    /\ UNCHANGED <<offJobVars, marker, priceTable, cache, now, calls, proc>>

\* the marker write of invocation j
RaceMark(j) ==
    /\ job[j].pc = "mark"
    /\ LET o == MarkOutcome(job[j], FALSE)
       IN  /\ job' = [job EXCEPT ![j] = o.job]
           /\ marker' = o.marker
    /\ UNCHANGED <<normVars, indVars, apiVars, sysVars>>

RaceNext ==
    \/ \E j \in Jobs : RaceGate(j)
    \/ \E j \in Jobs, frame \in CnListings, autoflush \in BOOLEAN : RaceSync(j, frame, autoflush)
    \/ \E j \in Jobs : RaceMark(j)

RaceSpec == RaceInit /\ [][RaceNext]_vars

----------------------------------------------------------------------------
(* Claims about the two normalizers, checked under NormSpec *)

\* "sh" or "sz" followed by exactly six digits
LegacyShape(s) ==
    /\ Len(s) = 8
    /\ SubSeq(s, 1, 2) \in {sh, sz}
    /\ \A i \in 3..8 : s[i] \in Digits

SixDigits(s) == Len(s) = 6 /\ \A i \in 1..6 : s[i] \in Digits

HasSuffixSSorSZ(s) ==
    /\ Len(s) >= 3
    /\ SubSeq(s, Len(s) - 2, Len(s)) \in {dotSS, dotSZ}

\* r is what stands in s before the first dot of s
BeforeFirstDot(r, s) ==
    /\ Len(r) < Len(s)
    /\ SubSeq(s, 1, Len(r)) = r
    /\ s[Len(r) + 1] = "."
    /\ \A i \in 1..Len(r) : r[i] # "."

\* the provider suffix a six-digit code gets from its leading digit
ByLeadingDigit(d) ==
    IF d[1] = "6" THEN d \o dotSS
    ELSE IF d[1] \in {"0", "3"} THEN d \o dotSZ
    ELSE IF d[1] \in {"4", "8"} THEN d \o dotBJ
    ELSE d

\* C1: _normalize_code is idempotent: normalizing the storage key of any symbol
\* once more returns the same key.
C1_Idempotent == normPc = "code2" => normOut2 = normOut

\* C2 as stated: sh/sz + six digits gives the six digits; otherwise a symbol ending
\* in .SS or .SZ gives the part before that suffix's dot; every other symbol is
\* returned unchanged.
C2_BeforeSuffixDot ==
    normPc = "code1" =>
        normOut = IF LegacyShape(normIn) THEN SubSeq(normIn, 3, 8)
                  ELSE IF HasSuffixSSorSZ(normIn) THEN SubSeq(normIn, 1, Len(normIn) - 3)
                  ELSE normIn

\* C2 amended: sh/sz + six digits gives the six digits; otherwise a symbol ending
\* in .SS or .SZ gives the part before its FIRST dot; every other symbol is
\* returned unchanged; a result is produced for every symbol.
C2_RulesInOrder ==
    normPc = "code1" =>
        IF LegacyShape(normIn) THEN normOut = SubSeq(normIn, 3, 8)
        ELSE IF HasSuffixSSorSZ(normIn) THEN BeforeFirstDot(normOut, normIn)
        ELSE normOut = normIn

\* a symbol with two dots ending in .SS has been normalized to what precedes the first
C2_Witness ==
    /\ normPc = "code1"
    /\ normIn = <<"A", "A", "P", "L", ".", "B", ".", "S", "S">>
    /\ normOut = <<"A", "A", "P", "L">>

\* C3 as stated: a bare six-digit code gets its suffix from the leading digit, an
\* sh/sz-prefixed code gets the result of its bare six-digit code, anything else
\* is returned unchanged.
C3_PrefixLikeBare ==
    normPc = "yf" =>
        normOut = IF SixDigits(normIn) THEN ByLeadingDigit(normIn)
                  ELSE IF LegacyShape(normIn) THEN ByLeadingDigit(SubSeq(normIn, 3, 8))
                  ELSE normIn

\* C3 amended: a bare six-digit code gets its suffix from the leading digit (6 ->
\* .SS, 0/3 -> .SZ, 4/8 -> .BJ, any other leading digit: unchanged); "sh" followed
\* by one or more digits gives those digits + .SS and "sz" followed by one or more
\* digits gives those digits + .SZ, whatever the leading digit and the number of
\* digits; anything else is returned unchanged.
C3_PrefixDecidesSuffix ==
    normPc = "yf" =>
        LET rest == SubSeq(normIn, 3, Len(normIn))
            digitsRest == Len(normIn) > 2 /\ \A i \in 3..Len(normIn) : normIn[i] \in Digits
        IN  normOut = IF SixDigits(normIn) THEN ByLeadingDigit(normIn)
                      ELSE IF digitsRest /\ SubSeq(normIn, 1, 2) = sh THEN rest \o dotSS
                      ELSE IF digitsRest /\ SubSeq(normIn, 1, 2) = sz THEN rest \o dotSZ
                      ELSE normIn

\* sz600000 went to 600000.SZ although the bare 600000 goes to 600000.SS
C3_Witness ==
    /\ normPc = "yf"
    /\ normIn = <<"s", "z", "6", "0", "0", "0", "0", "0">>
    /\ normOut = <<"6", "0", "0", "0", "0", "0", ".", "S", "Z">>


----------------------------------------------------------------------------
(* Claims about get_stock_info *)

\* handler p takes a get_stock_info request for symbol s in this step
TakesInfo(p, s) ==
    /\ Accepts(p)
    /\ calls' = calls + 1
    /\ proc'[p].op = "info"
    /\ proc'[p].symbol = s

\* the key under which the payload of symbol s is cached
InfoKey(s) == <<"stock:info:">> \o s

\* the store holds a record for the code of symbol s
HasRecord(table, s) == \E r \in table : r.code = _normalize_code(s)

\* C4: a get_stock_info call for a symbol whose cache entry, written by an
\* earlier successful fetch, has not reached its 24h expiry returns the cached
\* payload without asking the provider and without touching the store (the
\* cache read answering); the first call once the expiry is reached asks the
\* provider again
C4_CachedUntilExpiry ==
    [][\A p \in Procs, s \in Symbols :
          (TakesInfo(p, s) /\ cache[InfoKey(s)] # None) =>
              LET entry == cache[InfoKey(s)][1]
              IN  /\ (now < entry.exp /\ ~proc'[p].getRaised) =>
                        /\ proc'[p].pc = "done"
                        /\ proc'[p].ret = <<loads(entry.val)>>
                        /\ proc'[p].ret[1].symbol = s
                        /\ ~proc'[p].infoCalled
                        /\ stockTable' = stockTable
                        /\ priceTable' = priceTable
                        /\ cache' = cache
                  /\ now >= entry.exp => proc'[p].infoCalled]_vars

\* a call served from the cache half a day after the entry was written
C4_Witness ==
    \E p \in Procs :
        /\ proc[p].pc = "done"
        /\ proc[p].op = "info"
        /\ proc[p].hit
        /\ proc[p].ret # None
        /\ now = TickSeconds

\* C5: when get_stock_info has missed the cache and the provider has answered
\* with a payload, then on return the store holds a record whose code is the
\* normalized symbol, the cache (unless its write failed) holds the payload
\* under the key of the symbol as asked, expiring 24 hours later, and the value
\* returned is the provider's payload
C5_WriteThrough ==
    [][\A p \in Procs :
          (proc[p].pc = "redis_set" /\ proc[p].op = "info" /\ proc'[p] # proc[p]) =>
              /\ proc[p].infoCalled
              /\ proc'[p].pc = "done"
              /\ proc'[p].ret = proc[p].data
              /\ HasRecord(stockTable', proc[p].symbol)
              /\ ~proc'[p].setRaised =>
                    /\ cache'[InfoKey(proc[p].symbol)] # None
                    /\ loads(cache'[InfoKey(proc[p].symbol)][1].val) = proc[p].data[1]
                    /\ cache'[InfoKey(proc[p].symbol)][1].exp = now + 24 * 3600]_vars

\* a fetch that has written through to the store and to the cache
C5_Witness ==
    \E p \in Procs :
        /\ proc[p].pc = "done"
        /\ proc[p].op = "info"
        /\ proc[p].infoCalled
        /\ ~proc[p].getRaised
        /\ ~proc[p].setRaised
        /\ proc[p].ret # None
        /\ HasRecord(stockTable, proc[p].symbol)
        /\ cache[InfoKey(proc[p].symbol)] # None

\* C6: a cache that raises on the read, on the write or on both never makes
\* get_stock_info raise: the call asks the provider as with an empty cache,
\* returns absent when the provider has nothing and otherwise upserts the
\* record and returns the provider's payload
C6_CacheFailuresSwallowed ==
    [][\A p \in Procs :
          /\ proc'[p].exc # "RedisError"
          /\ \A s \in Symbols : (TakesInfo(p, s) /\ proc'[p].getRaised) =>
                /\ proc'[p].infoCalled
                /\ \/ proc'[p].pc = "done" /\ proc'[p].ret = None
                   \/ proc'[p].pc = "query_stock" /\ proc'[p].data # None
          /\ (proc[p].pc = "redis_set" /\ proc[p].op = "info" /\ proc'[p] # proc[p]) =>
                /\ proc'[p].pc = "done"
                /\ proc'[p].ret = proc[p].data
                /\ \E r \in stockTable' : /\ r.code = _normalize_code(proc[p].symbol)
                                          /\ r.name = proc[p].data[1].name]_vars

\* a call that returned the provider's payload with the cache failing twice
C6_Witness ==
    \E p \in Procs :
        /\ proc[p].pc = "done"
        /\ proc[p].op = "info"
        /\ proc[p].getRaised
        /\ proc[p].setRaised
        /\ proc[p].ret # None
        /\ HasRecord(stockTable, proc[p].symbol)

\* C7: a fresh fetch for a symbol whose record exists leaves the record with
\* the payload's name, the payload's market and a new update_time
C7_RecordFollowsPayload ==
    [][\A p \in Procs :
          (proc[p].pc = "commit_stock" /\ proc'[p].pc = "redis_set") =>
              \E r \in stockTable' :
                  /\ r.code = _normalize_code(proc[p].symbol)
                  /\ r.name = proc[p].data[1].name
                  /\ r.market = proc[p].data[1].market
                  /\ r.update_time = now]_vars

----------------------------------------------------------------------------
(* Claims about get_price_history *)

\* the rows of a bar table stored for the key of row r
SameKey(table, r) ==
    {q \in BagToSet(table) : q.stock_code = r.stock_code /\ q.date = r.date}

\* C8: a stored bar is never overwritten: whatever batch a later
\* get_price_history processes, after every step the table still holds exactly
\* one row for the (stock_code, date) of each row it held, with the values
\* first written
C8_FirstWriteWins ==
    [][\A r \in BagToSet(priceTable) :
          /\ SameKey(priceTable', r) = {r}
          /\ CopiesIn(r, priceTable') = 1]_vars

\* a handler has been through a batch that quotes a stored day differently
C8_Witness ==
    \E p \in Procs : \E r \in BagToSet(priceTable) :
        /\ proc[p].pc = "commit_bars"
        /\ r.stock_code = _normalize_code(proc[p].symbol)
        /\ \E i \in 1..Len(proc[p].hist_data) :
              /\ proc[p].hist_data[i].date = strftime(r.date)
              /\ proc[p].hist_data[i].open # r.open
        /\ \A n \in 1..Len(proc[p].pendBars) : proc[p].pendBars[n].date # r.date

\* C9: in every reachable state the table holds at most one bar per
\* (stock_code, date), and every bar belongs to a stored stock record
C9_UniqueBars ==
    \A r \in BagToSet(priceTable) :
        /\ SameKey(priceTable, r) = {r}
        /\ CopiesIn(r, priceTable) = 1
        /\ \E s \in stockTable : s.code = r.stock_code

\* two price requests have met on one key: one stored its bar, the other was
\* refused by the unique index
C9_Witness ==
    \E p, q \in Procs :
        /\ proc[p].op = "history" /\ proc[p].pc = "done" /\ proc[p].histCalled
        /\ proc[q].op = "history" /\ proc[q].pc = "raised"
        /\ proc[q].exc = "IntegrityError"
        /\ priceTable # EmptyBag

\* handler p leaves get_price_history with a value in this step, having fetched
\* a batch that is not empty
ReturnsBatch(p) ==
    /\ proc[p].pc \in {"upsert_bars", "commit_bars"}
    /\ proc'[p].pc = "done"

\* every date of the batch has a bar stored under the code of the symbol
BatchStored(table, symbol, hist_data) ==
    \A i \in 1..Len(hist_data) : \E r \in BagToSet(table) :
        /\ r.stock_code = _normalize_code(symbol)
        /\ r.date = strptime(hist_data[i].date)

\* C10 as stated: whenever get_price_history returns after a store miss and a
\* non-empty batch, every date of the batch has a stored bar
C10_EveryBarStored ==
    [][\A p \in Procs :
          ReturnsBatch(p) =>
              BatchStored(priceTable', proc[p].symbol, proc[p].hist_data)]_vars

\* C10 amended: on a store miss with a non-empty batch get_stock_info is called
\* exactly when the record is absent; if the record is there when it is read
\* again every item goes through the upsert, and a call that returns after that
\* leaves a stored bar for every date of the batch; if the record is still
\* absent no bar is stored and the call returns what the batch holds for the
\* requested date
C10_StoredWhenRecordEnsured ==
    [][\A p \in Procs :
          /\ (Accepts(p) /\ proc'[p].op = "history" /\ proc'[p].histCalled
                /\ calls' = calls + 1 /\ proc'[p].pc \notin {"done", "raised"}) =>
                IF HasRecord(stockTable, proc'[p].symbol)
                THEN proc'[p].pc = "upsert_bars" /\ ~proc'[p].ensured
                ELSE proc'[p].pc = "redis_get" /\ proc'[p].ensured
          /\ (proc[p].pc = "upsert_bars" /\ proc'[p] # proc[p]) =>
                IF HasRecord(stockTable, proc[p].symbol)
                THEN proc'[p].pc = "commit_bars"
                ELSE /\ proc'[p].pc = "done"
                     /\ priceTable' = priceTable
                     /\ proc'[p].ret = SearchBatch(proc[p].hist_data, proc[p].date)
          /\ (proc[p].pc = "commit_bars" /\ proc'[p].pc = "done") =>
                BatchStored(priceTable', proc[p].symbol, proc[p].hist_data)]_vars

\* a price request that found no record, had get_stock_info create it, stored
\* its batch and returned the bar of the requested date
C10_Witness ==
    \E p \in Procs :
        /\ proc[p].pc = "done"
        /\ proc[p].op = "history"
        /\ proc[p].ensured
        /\ proc[p].ret # None
        /\ HasRecord(stockTable, proc[p].symbol)
        /\ \E r \in BagToSet(priceTable) :
              /\ r.stock_code = _normalize_code(proc[p].symbol)
              /\ strftime(r.date) = proc[p].date

----------------------------------------------------------------------------
(* Claims about the order of the tiers and about what a request returns *)

\* handler p takes a get_price_history request in this step
TakesHistory(p) ==
    /\ Accepts(p)
    /\ calls' = calls + 1
    /\ proc'[p].op = "history"

\* the cache holds an entry for symbol s that has not reached its expiry
LiveEntry(s) == cache[InfoKey(s)] # None /\ now < cache[InfoKey(s)][1].exp

\* the bars stored for the code of symbol s and the day d
BarsOf(table, s, d) ==
    {r \in BagToSet(table) : r.stock_code = _normalize_code(s) /\ r.date = d}

\* C11: within one request a lower tier is consulted only after the tier above
\* missed: get_stock_info asks the provider exactly when the cache has no live
\* entry or its read failed; get_price_history asks the provider exactly when
\* the store has no bar for (code, date), and on a store hit returns the stored
\* bar without a provider call and without a write
C11_TiersInOrder ==
    [][\A p \in Procs :
          /\ \A s \in Symbols : TakesInfo(p, s) =>
                (proc'[p].infoCalled <=> (~LiveEntry(s) \/ proc'[p].getRaised))
          /\ (TakesHistory(p) /\ ParsesOk(proc'[p].date)) =>
                LET bars == BarsOf(priceTable, proc'[p].symbol, strptime(proc'[p].date))
                IN  IF bars # {}
                    THEN /\ proc'[p].pc = "done"
                         /\ proc'[p].storeHit
                         /\ ~proc'[p].histCalled
                         /\ ~proc'[p].infoCalled
                         /\ \E r \in bars :
                               /\ proc'[p].ret # None
                               /\ proc'[p].ret[1].date = r.date
                               /\ proc'[p].ret[1].open = r.open
                               /\ proc'[p].ret[1].close = r.close
                               /\ proc'[p].ret[1].high = r.high
                               /\ proc'[p].ret[1].low = r.low
                               /\ proc'[p].ret[1].volume = r.volume
                         /\ UNCHANGED <<stockTable, priceTable, cache>>
                    ELSE proc'[p].histCalled /\ ~proc'[p].storeHit]_vars

\* a price request answered from the store
C11_Witness ==
    \E p \in Procs :
        /\ proc[p].pc = "done"
        /\ proc[p].op = "history"
        /\ proc[p].storeHit
        /\ proc[p].ret # None
        /\ BarsOf(priceTable, proc[p].symbol, strptime(proc[p].date)) # {}

\* handler p finishes a get_price_history request for a well-formed date in
\* this step, by returning or by raising
FinishesHistory(p) ==
    /\ proc'[p] # proc[p]
    /\ proc'[p].op = "history"
    /\ proc'[p].pc \in {"done", "raised"}
    /\ ParsesOk(proc'[p].date)

\* the batch handler p fetched holds an item for the requested date (a request
\* that finishes in its first step has fetched nothing or an empty batch)
DateInBatch(p) ==
    /\ ~Free(p)
    /\ \E i \in 1..Len(proc[p].hist_data) : proc[p].hist_data[i].date = proc[p].date

\* C12: get_price_history returns absent and raises nothing whenever the
\* requested date is neither in the store nor in the fetched batch, and a bar it
\* returns is the bar of the requested date
C12_AbsentWithoutError ==
    [][\A p \in Procs :
          FinishesHistory(p) =>
              LET d == strptime(proc'[p].date)
              IN  /\ (BarsOf(priceTable, proc'[p].symbol, d) = {} /\ ~DateInBatch(p)) =>
                        (proc'[p].pc = "done" /\ proc'[p].ret = None)
                  /\ (proc'[p].pc = "done" /\ proc'[p].ret # None) =>
                        IF proc'[p].storeHit
                        THEN proc'[p].ret[1].date = d
                        ELSE proc'[p].ret[1].date = proc'[p].date]_vars

----------------------------------------------------------------------------
(* Claims about the indicators *)

\* the sum of close[a..b]
RECURSIVE SumOf(_, _, _)
SumOf(close, a, b) == IF a > b THEN 0 ELSE close[b] + SumOf(close, a, b - 1)

\* C19: the moving average over a window w >= 1 is missing on the first w - 1
\* rows and on every later row is the arithmetic mean of the last w closes
C19_MovingAverage ==
    indPc = "ma" =>
        /\ Len(indOut.ma) = Len(indIn)
        /\ \A i \in 1..Len(indIn) :
              IF i < indOut.window
              THEN indOut.ma[i] = NaN
              ELSE /\ indOut.ma[i] # NaN
                   /\ indOut.ma[i][1].num * indOut.window
                        = SumOf(indIn, i - indOut.window + 1, i) * indOut.ma[i][1].den

\* closes 1, 2, 3.001, 2, 1 with window 3: missing, missing, 6.001/3, 7.001/3,
\* 6.001/3
C19_Witness ==
    /\ indPc = "ma"
    /\ indIn = <<10000, 20000, 30010, 20000, 10000>>
    /\ indOut.window = 3
    /\ indOut.ma = << NaN, NaN, <<[num |-> 60010, den |-> 3]>>,
                      <<[num |-> 70010, den |-> 3]>>, <<[num |-> 60010, den |-> 3]>> >>

\* the reference fold of the setup counter: the buy count and the sell count
\* after row i (rows are numbered from 1, so the fold starts at row 5)
RECURSIVE RefBuy(_, _)
RefBuy(close, i) ==
    IF i < 5 THEN 0
    ELSE IF close[i] < close[i - 4] THEN RefBuy(close, i - 1) + 1 ELSE 0

RECURSIVE RefSell(_, _)
RefSell(close, i) ==
    IF i < 5 THEN 0
    ELSE IF close[i] > close[i - 4] THEN RefSell(close, i - 1) + 1 ELSE 0

RefEmit(close, i) ==
    IF RefBuy(close, i) > 0 THEN RefBuy(close, i)
    ELSE IF RefSell(close, i) > 0 THEN 0 - RefSell(close, i)
    ELSE 0

\* C20: calculate_td9 equals the reference fold on every close series: 0 on the
\* first four rows (and on every row of a series shorter than 5); from the
\* fifth row on a close below the close 4 rows earlier increments the buy count
\* and resets the sell count, a close above it does the opposite, an equal one
\* resets both; the value is +buy if buy > 0, else -sell if sell > 0, else 0
C20_SetupCounterFold ==
    indPc = "td9" =>
        /\ DOMAIN indOut = 1..Len(indIn)
        /\ \A i \in 1..Len(indIn) : indOut[i] = RefEmit(indIn, i)
        /\ \A i \in 1..Len(indIn) : (i < 5 \/ Len(indIn) < 5) => indOut[i] = 0

\* closes 3.001, 3.001, 2, 3.001, 1, 2 count 0, 0, 0, 0, 1, 2
C20_Witness ==
    /\ indPc = "td9"
    /\ indIn = <<30010, 30010, 20000, 30010, 10000, 20000>>
    /\ indOut = <<0, 0, 0, 0, 1, 2>>

\* x is the mean sum/n rounded to 3 places (x and sum in units of 1/10000)
IsRoundedMean(x, sum, n) ==
    /\ x % 10 = 0
    /\ x * n - sum <= 5 * n
    /\ sum - x * n <= 5 * n

\* C16: get_stock_price_with_indicators returns exactly the fetched rows whose
\* date lies in [start, end], both ends included and in order, and each carries
\* the moving averages (rounded to 3 places) and the setup count computed over
\* the whole fetched series
C16_WindowOfFullTable ==
    indPc = "series" =>
        LET rows == indOut.rows
            inside == {i \in 1..Len(indIn) : indOut.start <= i /\ i <= indOut.end}
        IN  /\ Len(rows) = Cardinality(inside)
            /\ \A k \in 1..Len(rows) :
                  LET i == indOut.start + k - 1
                  IN  /\ i \in inside
                      /\ rows[k].date = strftime(i)
                      /\ rows[k].close = indIn[i]
                      /\ rows[k].td9 = RefEmit(indIn, i)
                      /\ IF i < 5 THEN rows[k].ma5 = None
                         ELSE /\ rows[k].ma5 # None
                              /\ IsRoundedMean(rows[k].ma5[1], SumOf(indIn, i - 4, i), 5)
                      /\ rows[k].ma20 = None
                      /\ rows[k].ma50 = None
                      /\ rows[k].ma120 = None

\* six fetched rows, a window from day 3 on: four rows come back, and those of
\* days 5 and 6 carry a 5-day average and a setup count that reach back before
\* the window
C16_Witness ==
    /\ indPc = "series"
    /\ indIn = <<30010, 30010, 20000, 30010, 10000, 20000>>
    /\ indOut.start = 3
    /\ indOut.end = 6
    /\ Len(indOut.rows) = 4
    /\ indOut.rows[3].ma5 = <<24010>>
    /\ indOut.rows[3].td9 = 1
    /\ indOut.rows[4].td9 = 2

----------------------------------------------------------------------------
(* Claims about provider failures and about the indicator request *)

\* C13: a provider that fails (its answer is nothing: no payload, an empty
\* batch) never makes a request raise and leaves no trace: get_stock_info and
\* get_price_history return absent, get_stock_price_with_indicators returns
\* the empty list, and the store and the cache are as they were
C13_ProviderFailureLeavesNoTrace ==
    [][\A p \in Procs :
          (Accepts(p) /\ calls' = calls + 1 /\ proc'[p].provEmpty) =>
              /\ proc'[p].pc = "done"
              /\ proc'[p].exc = "none"
              /\ proc'[p].ret = IF proc'[p].op = "indicators" THEN << <<>> >> ELSE None
              /\ UNCHANGED <<stockTable, priceTable, cache>>]_vars

\* an indicator request the provider had nothing for, on a store that holds bars
C13_Witness ==
    \E p \in Procs :
        /\ proc[p].pc = "done"
        /\ proc[p].op = "indicators"
        /\ proc[p].provEmpty
        /\ proc[p].ret = << <<>> >>
        /\ priceTable # EmptyBag

\* C14: a failed commit of the stock record is not swallowed: get_stock_info
\* raises the store's error instead of going on, and the cache, which only a
\* handler past its commit writes, is left as it was
C14_StoreErrorPropagates ==
    [][/\ \A p \in Procs :
             (proc[p].pc = "commit_stock" /\ proc'[p] # proc[p]) =>
                 IF /\ proc[p].pendStock[1].kind = "insert"
                    /\ \E r \in stockTable : r.code = proc[p].pendStock[1].row.code
                 THEN /\ proc'[p].pc = "raised"
                      /\ proc'[p].exc = "IntegrityError"
                      /\ proc'[p].ret = None
                      /\ UNCHANGED <<stockTable, priceTable, cache>>
                 ELSE proc'[p].pc = "redis_set"
       /\ cache' # cache =>
             \E p \in Procs : proc[p].pc = "redis_set" /\ proc'[p].pc # "redis_set"]_vars

\* a get_stock_info call ended by the store's error, the cache entry of its
\* symbol never written
C14_Witness ==
    \E p \in Procs :
        /\ proc[p].pc = "raised"
        /\ proc[p].op = "info"
        /\ proc[p].exc = "IntegrityError"
        /\ cache[InfoKey(proc[p].symbol)] = None
        /\ HasRecord(stockTable, proc[p].symbol)

\* no two of the bars share a date
NoRepeatedDate(pend) ==
    \A i, j \in 1..Len(pend) : pend[i].date = pend[j].date => i = j

\* C15: two overlapping requests of one kind for one symbol, both started on a
\* store without the record (and so without its bars), both return: neither
\* ends in a store error (a batch that repeats a date set aside)
C15_ColdRequestsBothReturn ==
    [][\A p, q \in Procs :
          (/\ p # q
           /\ proc[p].op \in {"info", "history"}
           /\ proc[q].op = proc[p].op
           /\ proc[q].symbol = proc[p].symbol
           /\ proc[p].op = "history" => (proc[p].ensured /\ proc[q].ensured)
           /\ NoRepeatedDate(proc[p].pendBars)
           /\ ~Free(p)) =>
              ~(proc'[p].pc = "raised" /\ proc'[p].exc = "IntegrityError")]_vars

\* dates are days; a day d behind or ahead of another
DayShift(date, d) == [day |-> date.day + d, form |-> "iso"]

Moves(close, i, dir) ==
    /\ i >= 5
    /\ i <= Len(close)
    /\ IF dir = 1 THEN close[i] < close[i - 4] ELSE close[i] > close[i - 4]

\* rows a+1 .. a+n are a whole run of moves in one direction: row a is not one
IsRun(close, a, n, dir) ==
    /\ ~Moves(close, a, dir)
    /\ \A k \in 1..n : Moves(close, a + k, dir)

\* C21: the setup counter is never capped: a run of n consecutive rows each
\* closing below the close 4 rows earlier emits 1, 2, ..., n, however long
\* (a run of 11 emits 11, not 9), and a run of n rises emits -1, ..., -n
C21_NeverCapped ==
    indPc = "td9" =>
        \A a \in 4..Len(indIn), n \in 1..Len(indIn), dir \in {0 - 1, 1} :
            IsRun(indIn, a, n, dir) =>
                \A k \in 1..n : indOut[a + k] = dir * k

\* a series that falls every day: rows 5 to 15 are a run of 11 drops, the
\* last of which emits 11
C21_Witness ==
    /\ indPc = "td9"
    /\ IsRun(indIn, 4, 11, 1)
    /\ indOut[15] = 11
    /\ indOut[13] = 9

\* C29: the exponential average is seeded with the first value, so on every
\* non-empty close series dif, dea and macd are 0 at the first row; at every
\* row macd = 2 * (dif - dea); on a constant series all three are 0 at every row
C29_MacdSeededWithFirst ==
    indPc = "macd" =>
        /\ DOMAIN indOut = 1..Len(indIn)
        /\ indOut[1] = [dif |-> Zero, dea |-> Zero, macd |-> Zero]
        /\ \A i \in 1..Len(indIn) :
              indOut[i].macd =
                  FracMul(Frac(2, 1), FracSub(indOut[i].dif, indOut[i].dea))
        /\ (\A i \in 1..Len(indIn) : indIn[i] = indIn[1]) =>
              \A i \in 1..Len(indIn) :
                  indOut[i] = [dif |-> Zero, dea |-> Zero, macd |-> Zero]

\* closes 1, 2: dif is 0 and then 15/13 - 29/27 = 28/351 (the fast average
\* runs ahead of the slow one), dea a fifth of that, macd twice their difference
C29_Witness ==
    /\ indPc = "macd"
    /\ indIn = <<10000, 20000>>
    /\ indOut[1].dif = Zero
    /\ indOut[2].dif = Frac(28, 351)
    /\ indOut[2].dea = Frac(28, 1755)
    /\ indOut[2].macd = Frac(224, 1755)

\* C27: a malformed date is reported as a client error, never as not-found
\* (404) or as an internal error (500): here for the single-date price endpoint
C27_MalformedDateIsClientError ==
    \A p \in Procs :
        (/\ proc[p].op = "history"
         /\ proc[p].pc \in {"done", "raised"}
         /\ ~ParsesOk(proc[p].date)) =>
            /\ PriceResponse(proc[p]).status \in 400..499
            /\ PriceResponse(proc[p]).status # 404

\* the symbol is written the legacy way: sh or sz in front
Prefixed(s) == StartsWith(s, sh) \/ StartsWith(s, sz)

\* the market as the claim words it: by prefix and by suffix only
MarketAsWorded(s) ==
    IF Prefixed(s) \/ EndsWith(s, dotSS) \/ EndsWith(s, dotSZ) THEN "CN"
    ELSE IF EndsWith(s, dotHK) THEN "HK"
    ELSE "US"

\* the market by the shape of the symbol as requested: Shanghai and Shenzhen
\* listings are CN however they are spelled (suffix, prefix before digits,
\* or a bare six-digit code starting with 6, 0 or 3)
MarketByShape(s) ==
    IF \/ EndsWith(s, dotSS) \/ EndsWith(s, dotSZ)
       \/ (Prefixed(s) /\ IsDigit(From2(s)))
       \/ (IsDigit(s) /\ Len(s) = 6 /\ s[1] \in {"6", "0", "3"})
    THEN "CN"
    ELSE IF EndsWith(s, dotHK) THEN "HK"
    ELSE "US"

RecordKeyedByCode ==
    \A p \in Procs :
        /\ (proc[p].op = "info" /\ proc[p].pc = "done" /\ proc[p].ret # None) =>
              proc[p].ret[1].symbol = proc[p].symbol
        /\ (proc[p].pc \in {"commit_stock", "redis_set"} /\ proc[p].pendStock # None) =>
              proc[p].pendStock[1].row.code = _normalize_code(proc[p].symbol)

\* the request leaves the start to the period, and both dates it names parse
ByPeriod == apiIn.start_date = None /\ apiOut.status = 200

\* the number N of a period written N followed by the unit, N >= 1
HasForm(p, unit) ==
    /\ EndsWith(p, unit)
    /\ IsDigit(DropLast(p, Len(unit)))
    /\ DigitsValue(DropLast(p, Len(unit))) >= 1

\* C30: without start_date, period 'ytd' starts the window on January 1st of
\* the end date's year (the end date being the given one or today); 'Nd',
\* 'Nmo', 'Ny' and 'max' start it N, N*30, N*365 and 50*365 days before the
\* end date
C30_PeriodWindow ==
    (apiPc = "indicators" /\ ByPeriod) =>
        LET p == Lower(apiIn.period)
            end == IF apiIn.end_date = None THEN apiIn.today
                   ELSE strptime(apiIn.end_date[1])
            start == strptime(apiOut.s_date)
            N(unit) == DigitsValue(DropLast(p, Len(unit)))
        IN  /\ strptime(apiOut.e_date) = end
            /\ p = <<"y", "t", "d">> => start = Jan1(end)
            /\ HasForm(p, <<"d">>) => start = end - N(<<"d">>)
            /\ HasForm(p, <<"m", "o">>) => start = end - N(<<"m", "o">>) * 30
            /\ HasForm(p, <<"y">>) => start = end - N(<<"y">>) * 365
            /\ p = <<"m", "a", "x">> => start = end - 50 * 365

\* the provider has data for the symbol: the download went through and
\* returned a frame for its ticker
Resolvable(s) == ~apiIn.fails /\ _normalize_symbol(s) \in apiIn.columns

\* C22: the batch returns, for every symbol, what get_stock_info returns for
\* it (same market), and leaves the side effects of the per-symbol calls: a
\* cache entry and a stock record for each symbol answered
C22_BatchLikePerSymbol ==
    (apiPc = "batch" /\ apiIn.mode = "normal") =>
        \A i \in 1..Len(apiOut.data) :
            LET s == apiOut.data[i].symbol
            IN  /\ <<[apiOut.data[i] EXCEPT !.price = 10000]>> \in ProviderGetStockInfo(s)
                /\ s \in Symbols =>
                      /\ cache[InfoKey(s)] # None
                      /\ HasRecord(stockTable, s)

\* C23: a batch never fails on account of a symbol: the answer is a success
\* with exactly one entry, under the symbol as the caller spelled it and in the
\* order requested, for each symbol the provider has data for, and none for
\* the others
C23_BatchOmitsUnresolved ==
    apiPc = "batch" =>
        LET found == SelectSeq(apiIn.symbols, Resolvable)
        IN  /\ apiOut.status = 200
            /\ apiOut.code = 0
            /\ IF apiIn.mode = "normal"
               THEN /\ Len(apiOut.data) = Len(found)
                    /\ \A i \in 1..Len(found) : apiOut.data[i].symbol = found[i]
                    /\ apiOut.total = Len(found)
               ELSE /\ DOMAIN apiOut.data = {found[i] : i \in 1..Len(found)}
                    /\ apiOut.total = Cardinality(DOMAIN apiOut.data)

\* the batch of the test: AAPL and sh600000, both with data, yield two entries
\* in that order, each under the symbol as requested
C23_Witness ==
    /\ apiPc = "batch"
    /\ apiIn.mode = "normal"
    /\ apiIn.symbols = << <<"A", "A", "P", "L">>, <<"s", "h", "6", "0", "0", "0", "0", "0">> >>
    /\ Len(apiOut.data) = 2
    /\ apiOut.data[1].symbol = <<"A", "A", "P", "L">>
    /\ apiOut.data[1].market = "US"
    /\ apiOut.data[2].symbol = <<"s", "h", "6", "0", "0", "0", "0", "0">>
    /\ apiOut.data[2].market = "CN"

\* the step is the start of a run of the job
GateStep == job.pc \in {"idle", "done"} /\ job'.runs = job.runs + 1

\* C24: a marker that is read and equals today's date ends the run at once,
\* with no listing fetched and neither the store nor the marker written; an
\* absent marker, one of another date, or a failing read lets the run go on to
\* the bulk sync; listings are fetched and the store is written by the bulk
\* sync only
C24_SkipOnlyOnTodaysMarker ==
    [][/\ GateStep =>
             IF /\ ~job'.gateRaised
                /\ marker # None
                /\ now < marker[1].exp
                /\ marker[1].val = strftime(now \div DaySeconds)
             THEN /\ job'.pc = "done"
                  /\ job'.skipped
                  /\ ~job'.listed
                  /\ job'.listing = <<>>
                  /\ UNCHANGED <<stockTable, marker>>
             ELSE /\ job'.pc = "sync"
                  /\ ~job'.skipped
                  /\ UNCHANGED <<stockTable, marker>>
       /\ stockTable' # stockTable => job.pc = "sync"]_vars

\* a second run on the day of a successful one, skipped, the store as the
\* first run left it
C24_Witness ==
    /\ job.pc = "done"
    /\ job.skipped
    /\ job.runs = 2
    /\ marker # None
    /\ marker[1].val = Today
    /\ stockTable # {}

\* C25: the job never raises into its host: every run ends at "done"; the
\* marker is written only by the step that follows a bulk sync that returned,
\* with today's date and an expiry 48 hours ahead; a bulk sync that raises
\* ends the run with the marker as it was
C25_MarksOnlySuccess ==
    [][/\ job'.pc \in {"idle", "sync", "mark", "done"}
       /\ marker' # marker =>
             /\ job.pc = "mark"
             /\ job.exc = "none"
             /\ marker' = <<[val |-> strftime(now \div DaySeconds),
                             exp |-> now + 48 * 3600]>>
       /\ job'.pc = "mark" => (job.pc = "sync" /\ job'.exc = "none")
       /\ (job.pc = "sync" /\ job'.exc # "none") =>
             /\ job'.pc = "done"
             /\ marker' = marker]_vars

\* the second run of a day whose first run failed: not skipped, and failed
\* again on a listing that repeats a code, the marker still absent
C25_Witness ==
    /\ job.pc = "done"
    /\ job.runs = 2
    /\ now = 0
    /\ job.exc = "IntegrityError"
    /\ ~job.skipped
    /\ marker = None

\* entry i is the last one of the listing for its code
LastForCode(listing, i) ==
    \A j \in 1..Len(listing) :
        _normalize_code(listing[j].symbol) = _normalize_code(listing[i].symbol) => j <= i

Triples(table) == {<<r.code, r.name, r.market>> : r \in table}

\* C26: the bulk sync is an idempotent upsert: it returns, and afterwards
\* every entry of the listing (the last one, where a code is listed twice) has
\* exactly one record with code _normalize_code(symbol) carrying its name and
\* market; records of codes not listed are unchanged, none is deleted, and
\* a second sync with the same listing leaves the same (code, name, market)
C26_SyncIsIdempotentUpsert ==
    [][(job.pc = "sync" /\ job'.pc # "sync" /\ job'.exc # "OperationalError") =>
          LET listing == job'.listing
              codes == {_normalize_code(listing[i].symbol) : i \in 1..Len(listing)}
          IN  /\ job'.exc = "none"
              /\ \A i \in 1..Len(listing) :
                    LET code == _normalize_code(listing[i].symbol)
                        recs == {r \in stockTable' : r.code = code}
                    IN  /\ Cardinality(recs) = 1
                        /\ LastForCode(listing, i) =>
                              \A r \in recs : /\ r.name = listing[i].name
                                              /\ r.market = listing[i].market
              /\ \A r \in stockTable : r.code \notin codes => r \in stockTable'
              /\ \A r \in stockTable : \E r2 \in stockTable' : r2.code = r.code
              /\ \A autoflush \in BOOLEAN :
                    LET again == sync_all_stocks(stockTable', listing, autoflush)
                    IN  again.ok /\ Triples(again.table) = Triples(stockTable')]_vars

----------------------------------------------------------------------------
(* Market of mainland codes *)

\* a symbol the provider query key treats as a mainland A-share code: six
\* digits led by 6, 0, 3, 4 or 8, or digits behind an sh or sz prefix
AShareCode(s) ==
    \/ SixDigits(s) /\ s[1] \in {"6", "0", "3", "4", "8"}
    \/ (StartsWith(s, sh) \/ StartsWith(s, sz)) /\ IsDigit(From2(s))

\* C31: every symbol the provider query key treats as a mainland A-share
\* code is reported by YFinanceProvider.get_stock_info with market CN
C31_AShareReportedCN ==
    (normPc = "info" /\ normOut # None /\ AShareCode(normIn)) =>
        normOut[1].market = "CN"

----------------------------------------------------------------------------
(* Cache and store *)

\* C32: the cache is never ahead of the store: whenever the cache holds an
\* info entry for a symbol, expired or not, the store holds a record with
\* the symbol's storage code
C32_CacheNeverAheadOfStore ==
    \A s \in Symbols : cache[InfoKey(s)] # None => HasRecord(stockTable, s)

\* both spellings of the code are cached over the one record they share
C32_Witness ==
    /\ cache[InfoKey(SymCN)] # None
    /\ cache[InfoKey(SymBare)] # None
    /\ Cardinality(stockTable) = 1
    /\ \A p \in Procs : Free(p)

----------------------------------------------------------------------------
(* The setup counters *)

\* C33: in every state of the fold of calculate_td9: the buy and the sell
\* counter are never both positive; and at every row r already folded (r >= 5,
\* index r - 1 of the code) the value is nonzero exactly when the close differs
\* from the close 4 rows earlier, is at most r - 4 in absolute value, is one
\* more than the previous value on a fall after a value >= 0 and 1 on a fall
\* after a negative value, and symmetrically negated on a rise; the series
\* returned is the one calculate_td9 computes
C33_SetupCounterFold ==
    indPc \in {"fold", "folded"} =>
        LET td9 == indOut.td_values
            close == indIn
        IN  /\ ~(indOut.buy_setup_count > 0 /\ indOut.sell_setup_count > 0)
            /\ \A r \in 5..Len(close) :
                  r < indOut.i =>
                     /\ td9[r] # 0 <=> close[r] # close[r - 4]
                     /\ Abs(td9[r]) <= r - 4
                     /\ (close[r] < close[r - 4] /\ td9[r - 1] >= 0) => td9[r] = td9[r - 1] + 1
                     /\ (close[r] < close[r - 4] /\ td9[r - 1] < 0) => td9[r] = 1
                     /\ (close[r] > close[r - 4] /\ td9[r - 1] <= 0) => td9[r] = td9[r - 1] - 1
                     /\ (close[r] > close[r - 4] /\ td9[r - 1] > 0) => td9[r] = 0 - 1
            /\ indPc = "folded" => td9 = calculate_td9(close)

\* two falls, a rise and an unchanged close: 1, 2, -1, 0
C33_Witness ==
    /\ indPc = "folded"
    /\ Len(indIn) = 8
    /\ indOut.td_values = <<0, 0, 0, 0, 1, 2, 0 - 1, 0>>
    /\ indOut.buy_setup_count = 0
    /\ indOut.sell_setup_count = 0

----------------------------------------------------------------------------
(* The marker and the listings *)

\* C34: the marker records a real refresh: the marker is set only in a run
\* whose listings were fetched and none of them failed; a run in which the
\* listing of a market failed (and came back as an empty list) ends without
\* writing the marker
C34_MarkerMeansListed ==
    [][/\ marker' # marker => (job.listed /\ ~job.listRaised)
       /\ (job.pc = "sync" /\ job'.listRaised) => job'.pc = "done"]_vars

----------------------------------------------------------------------------
(* Overlapping invocations of the job *)

\* C35: with a working marker store the bulk refresh runs at most once a
\* day: no two invocations of the same day have both passed the gate and
\* called the provider listings
C35_OncePerDay ==
    \A j1, j2 \in Jobs :
        (j1 # j2 /\ job[j1].listed /\ job[j2].listed) => job[j1].today # job[j2].today

====
